---- MODULE Spec2Model ----
(***************************************************************************)
(* State-machine model of the TicketBot backend (src/server.js).           *)
(*                                                                         *)
(* src/server.js holds two variants of the server: the file-backed one     *)
(* (lines 1-391, synchronous handlers over data/*.json) and the            *)
(* table-backed one (lines 393-905, async handlers over a Postgres         *)
(* key-value table).  The variable `backend` says which variant runs.      *)
(*                                                                         *)
(* A document is [present, data]: `present` is whether the file / row      *)
(* exists, `data` its JSON content.  JSON arrays are sequences, JSON       *)
(* objects keyed by guild id are functions, JSON null is the string Null   *)
(* (NullObj where the other values are objects).                           *)
(***************************************************************************)
EXTENDS Integers, Sequences, FiniteSets, TLC

VARIABLES
  backend,   \* "file" or "table": the server variant that is running
  files,     \* the document store: [DocNames -> [present, data]]
  issued,    \* session tokens (their claims) that jwt.verify accepts
  now,       \* Date.now()
  nextUuid,  \* how many uuids uuidv4() has produced
  last,      \* the request served last and everything observed about it
  log,       \* the three requests served before `last` (kept by some scenarios)
  scn,       \* the scenario that runs: it fixes the inputs the requests draw from
  budget,    \* requests the scenario may still start
  procs,     \* table-backed variant: the handlers in flight, at their awaits
  step,      \* table-backed variant: the handler step taken last
  made,      \* table-backed variant: flag writes completed, per guild
  delivered, \* table-backed variant: consumes answered pending=true, per guild
  env,       \* process.env: ADMIN_USER and ADMIN_PASS, each set or undefined
  disk,      \* store level: the text of each file of the data directory
  rows,      \* store level: the jsonb value of each row of the files table
  faults,    \* the documents whose storage reads / writes fail
  sdk        \* the panel SDK in the browser: its token, localStorage, its login call

vars == <<backend, files, issued, now, nextUuid, last, log, scn, budget,
          procs, step, made, delivered, env, disk, rows, faults, sdk>>

(***************************************************************************)
(* Bounds of the model                                                     *)
(***************************************************************************)
MaxNow == 1
MaxReqs == 3
MaxStarts == 3
MaxChain == 4
MaxProbe == 2

\* Store calls made in a row on the two stores.
MaxStoreOps == 3
MaxUuid == 4

(***************************************************************************)
(* Values                                                                  *)
(***************************************************************************)
Null == "null"

\* JSON null where the other values are objects
NullObj == [null |-> TRUE]
NoKey == ""

\* JS undefined: a field a body does not have, a variable process.env lacks.
Undefined == "undefined"

usersFile == "users.json"
botsFile == "bots.json"
guildsFile == "guilds.json"
rolesFile == "guild_roles.json"
channelsFile == "guild_channels.json"
cfgFile == "guild_configs.json"
publishFile == "publish_flags.json"

DocNames == {usersFile, botsFile, guildsFile, rolesFile, channelsFile,
             cfgFile, publishFile}

GuildIds == {"g1", "g2"}

EmptyObj == [g \in {} |-> Null]

Absent == [present |-> FALSE, data |-> Null]
Doc(v) == [present |-> TRUE, data |-> v]

\* JS: obj[key] = val
SetKey(obj, key, val) ==
  [k \in DOMAIN obj \cup {key} |-> IF k = key THEN val ELSE obj[k]]

\* JS: delete obj[key]
DelKey(obj, key) == [k \in DOMAIN obj \ {key} |-> obj[k]]

\* JS: obj[key] || dflt, for object-valued entries
GetOr(obj, key, dflt) == IF key \in DOMAIN obj THEN obj[key] ELSE dflt

\* JS: arr.findIndex(Test), 1-based, 0 when nothing matches
FindIndex(arr, Test(_)) ==
  LET I == {i \in 1..Len(arr) : Test(arr[i])}
  IN  IF I = {} THEN 0 ELSE CHOOSE i \in I : \A j \in I : i <= j

\* JS: arr.splice(idx, 1)
Splice(arr, idx) == [i \in 1..(Len(arr) - 1) |-> IF i < idx THEN arr[i] ELSE arr[i + 1]]

(***************************************************************************)
(* Document store                                                          *)
(***************************************************************************)
\* What a handler has done to the store so far.
\* `ops` is the storage calls made, in order, each with its outcome; `thrown`
\* is whether one of them threw out of the handler.
Ctx(F) == [files |-> F, reads |-> {}, mats |-> {}, writes |-> {}, ops |-> <<>>,
           thrown |-> FALSE]

\* No storage call fails.
NoFaults == [reads |-> {}, writes |-> {}]

\* The storage failures a scenario can start under: the reads of one document
\* fail (the file is unreadable or not JSON, the SELECT is rejected), or the
\* writes of one document fail.
FaultPlans ==
  {NoFaults}
    \cup {[reads |-> {n}, writes |-> {}] : n \in {usersFile, botsFile, guildsFile, cfgFile}}
    \cup {[reads |-> {}, writes |-> {n}] : n \in {usersFile, guildsFile, cfgFile}}

StorageOp(kind, name, ok) == [kind |-> kind, name |-> name, ok |-> ok]

\* File-backed readJSON: create the file with the fallback when it does not
\* exist, then read it.
\* Everything is inside one try: when writeFileSync, readFileSync or
\* JSON.parse throws, the catch returns the fallback and the handler goes on.
readJSON_fs(c, name, fallback) ==
  LET there == c.files[name].present
      created == ~there /\ name \notin faults.writes
      ok == (there \/ created) /\ name \notin faults.reads
      F1 == IF created THEN [c.files EXCEPT ![name] = Doc(fallback)] ELSE c.files
  IN  IF c.thrown THEN [val |-> fallback, ctx |-> c]
      ELSE [val |-> IF ok THEN F1[name].data ELSE fallback,
            ctx |-> [files |-> F1,
                     reads |-> c.reads \cup {name},
                     mats |-> IF created THEN c.mats \cup {name} ELSE c.mats,
                     writes |-> c.writes,
                     ops |-> Append(c.ops, StorageOp("read", name, ok)),
                     thrown |-> FALSE]]

\* Table-backed readJSON handled without interleaving: SELECT; when there is
\* no row, INSERT the fallback (ON CONFLICT DO NOTHING) and return the fallback.
\* A rejected pool.query (the SELECT, or the INSERT of the fallback) rejects the
\* awaited readJSON: the handler ends there.
readJSON_kv(c, name, fallback) ==
  LET there == c.files[name].present
      ok == name \notin faults.reads /\ (there \/ name \notin faults.writes)
  IN  IF c.thrown THEN [val |-> fallback, ctx |-> c]
      ELSE IF ~ok
           THEN [val |-> fallback,
                 ctx |-> [c EXCEPT !.ops = Append(@, StorageOp("read", name, FALSE)),
                                   !.thrown = TRUE]]
      ELSE [val |-> IF there THEN c.files[name].data ELSE fallback,
            ctx |-> [files |-> IF there THEN c.files
                               ELSE [c.files EXCEPT ![name] = Doc(fallback)],
                     reads |-> c.reads \cup {name},
                     mats |-> IF there THEN c.mats ELSE c.mats \cup {name},
                     writes |-> c.writes,
                     ops |-> Append(c.ops, StorageOp("read", name, TRUE)),
                     thrown |-> FALSE]]

readJSON(c, name, fallback) ==
  IF backend = "file" THEN readJSON_fs(c, name, fallback)
  ELSE readJSON_kv(c, name, fallback)

\* writeJSON of both variants: the document is replaced as a whole.  A
\* writeFileSync that throws, or a rejected pool.query, is not caught here: it
\* leaves the document as it was and ends the handler.
writeJSON(c, name, val) ==
  IF c.thrown THEN c
  ELSE IF name \in faults.writes
       THEN [c EXCEPT !.ops = Append(@, StorageOp("write", name, FALSE)), !.thrown = TRUE]
  ELSE [files |-> [c.files EXCEPT ![name] = Doc(val)],
        reads |-> c.reads,
        mats |-> c.mats,
        writes |-> c.writes \cup {name},
        ops |-> Append(c.ops, StorageOp("write", name, TRUE)),
        thrown |-> FALSE]

(***************************************************************************)
(* Helpers and middleware                                                  *)
(***************************************************************************)
NoTok == [kind |-> "none"]
BadTok == [kind |-> "bad"]

Reply(c, status, body, ran) ==
  [ctx |-> c, status |-> status, body |-> body, ran |-> ran, uuids |-> 0]

\* A reply of a handler that drew n uuids.
Minted(reply, n) == [reply EXCEPT !.uuids = n]

Reject(c, status, msg) == Reply(c, status, [error |-> msg], FALSE)

safeBotView(b) == [k \in DOMAIN b \ {"token"} |-> b[k]]

MapSafe(bots) == [i \in 1..Len(bots) |-> safeBotView(bots[i])]

\* auth: a missing bearer token, or one jwt.verify throws on, is answered 401.
\* An auth that also looks the token's subject up in the users document and
\* takes isAdmin from there.
auth_storedUser(tok) ==
  LET users == IF files["users.json"].present THEN files["users.json"].data ELSE <<>>
      I == {i \in DOMAIN users : users[i].id = tok.uid}
  IN  IF tok.kind = "none" THEN [pass |-> FALSE, status |-> 401, msg |-> "no token"]
      ELSE IF tok.kind # "jwt" \/ I = {}
           THEN [pass |-> FALSE, status |-> 401, msg |-> "invalid token"]
      ELSE [pass |-> TRUE, user |-> [tok EXCEPT !.isAdmin = users[CHOOSE i \in I : TRUE].isAdmin]]

auth(tok) ==
  IF tok.kind = "none" THEN [pass |-> FALSE, status |-> 401, msg |-> "no token"]
  ELSE IF tok.kind # "jwt" THEN [pass |-> FALSE, status |-> 401, msg |-> "invalid token"]
  ELSE [pass |-> TRUE, user |-> tok]

\* A guard that lets every session through.
ensureAdmin_anyone(user) == TRUE

\* ensureAdmin (both variants answer 403 "solo admin": the file-backed one
\* directly, the table-backed one through next(err) and the JSON error handler).
ensureAdmin(user) == user.isAdmin

\* The JSON error handler of the table-backed variant: status err.status || 500.
errorHandler(c, err) == Reject(c, IF err.status # 0 THEN err.status ELSE 500, err.message)

\* A guard that checks the binding and the bot but not whose bot it is.
ensureOwner_anyone(c, me, guildId) ==
  LET r1 == readJSON(c, guildsFile, <<>>)
      r2 == readJSON(r1.ctx, botsFile, <<>>)
      gi == FindIndex(r1.val, LAMBDA x : x.guildId = guildId)
      bi == IF gi = 0 THEN 0 ELSE FindIndex(r2.val, LAMBDA x : x.id = r1.val[gi].botId)
  IN  IF gi = 0 THEN [pass |-> FALSE, ctx |-> r2.ctx, status |-> 404, msg |-> "guild no registrado"]
      ELSE IF bi = 0 THEN [pass |-> FALSE, ctx |-> r2.ctx, status |-> 404, msg |-> "bot no encontrado"]
      ELSE [pass |-> TRUE, ctx |-> r2.ctx]

\* A guard that remembers: whoever the previous owner-scoped request of this
\* guild let in or refused gets the same answer again.
ensureOwner_cached(c, me, guildId) ==
  LET r1 == readJSON(c, guildsFile, <<>>)
      r2 == readJSON(r1.ctx, botsFile, <<>>)
      gi == FindIndex(r1.val, LAMBDA x : x.guildId = guildId)
      bi == IF gi = 0 THEN 0 ELSE FindIndex(r2.val, LAMBDA x : x.id = r1.val[gi].botId)
      seen == {i \in 1..3 : log[i].guild = guildId /\ log[i].tok = me
                              /\ log[i].status \in {200, 403}}
      was == IF seen = {} THEN 0 ELSE log[CHOOSE i \in seen : \A j \in seen : j <= i].status
      refuse == IF was # 0 THEN was = 403
                ELSE ~me.isAdmin /\ r2.val[bi].ownerUserId # me.uid
  IN  IF gi = 0 THEN [pass |-> FALSE, ctx |-> r2.ctx, status |-> 404, msg |-> "guild no registrado"]
      ELSE IF bi = 0 THEN [pass |-> FALSE, ctx |-> r2.ctx, status |-> 404, msg |-> "bot no encontrado"]
      ELSE IF refuse
           THEN [pass |-> FALSE, ctx |-> r2.ctx, status |-> 403, msg |-> "no eres dueno de este guild"]
      ELSE [pass |-> TRUE, ctx |-> r2.ctx]

\* A guard that lets an admin in before it looks for the binding and the bot.
ensureOwner_adminFirst(c, me, guildId) ==
  LET r1 == readJSON(c, guildsFile, <<>>)
      r2 == readJSON(r1.ctx, botsFile, <<>>)
      gi == FindIndex(r1.val, LAMBDA x : x.guildId = guildId)
      bi == IF gi = 0 THEN 0 ELSE FindIndex(r2.val, LAMBDA x : x.id = r1.val[gi].botId)
  IN  IF me.isAdmin THEN [pass |-> TRUE, ctx |-> r2.ctx]
      ELSE IF gi = 0
           THEN [pass |-> FALSE, ctx |-> r2.ctx, status |-> 404, msg |-> "guild no registrado"]
      ELSE IF bi = 0
           THEN [pass |-> FALSE, ctx |-> r2.ctx, status |-> 404, msg |-> "bot no encontrado"]
      ELSE IF r2.val[bi].ownerUserId # me.uid
           THEN [pass |-> FALSE, ctx |-> r2.ctx, status |-> 403,
                 msg |-> "no eres dueno de este guild"]
      ELSE [pass |-> TRUE, ctx |-> r2.ctx]

ensureOwner(c, me, guildId) ==
  LET r1 == readJSON(c, guildsFile, <<>>)
      r2 == readJSON(r1.ctx, botsFile, <<>>)
      guilds == r1.val
      bots == r2.val
      gi == FindIndex(guilds, LAMBDA x : x.guildId = guildId)
      bi == IF gi = 0 THEN 0 ELSE FindIndex(bots, LAMBDA x : x.id = guilds[gi].botId)
  IN  IF gi = 0 THEN [pass |-> FALSE, ctx |-> r2.ctx, status |-> 404, msg |-> "guild no registrado"]
      ELSE IF bi = 0 THEN [pass |-> FALSE, ctx |-> r2.ctx, status |-> 404, msg |-> "bot no encontrado"]
      ELSE IF ~me.isAdmin /\ bots[bi].ownerUserId # me.uid
           THEN [pass |-> FALSE, ctx |-> r2.ctx, status |-> 403, msg |-> "no eres dueno de este guild"]
      ELSE [pass |-> TRUE, ctx |-> r2.ctx]

\* A botAuth that loads the bots document before it looks at the header.
botAuth_readsFirst(c, apiKey) ==
  LET r == readJSON(c, botsFile, <<>>)
      bi == FindIndex(r.val, LAMBDA b : b.apiKey = apiKey)
  IN  IF apiKey = NoKey
      THEN [pass |-> FALSE, ctx |-> r.ctx, status |-> 401, msg |-> "x-api-key required"]
      ELSE IF bi = 0
           THEN [pass |-> FALSE, ctx |-> r.ctx, status |-> 401, msg |-> "invalid api key"]
      ELSE [pass |-> TRUE, ctx |-> r.ctx, bot |-> r.val[bi]]

botAuth(c, apiKey) ==
  IF apiKey = NoKey THEN [pass |-> FALSE, ctx |-> c, status |-> 401, msg |-> "x-api-key required"]
  ELSE LET r == readJSON(c, botsFile, <<>>)
           bi == FindIndex(r.val, LAMBDA b : b.apiKey = apiKey)
       IN  IF bi = 0 THEN [pass |-> FALSE, ctx |-> r.ctx, status |-> 401, msg |-> "invalid api key"]
           ELSE [pass |-> TRUE, ctx |-> r.ctx, bot |-> r.val[bi]]

(***************************************************************************)
(* Publish flags                                                           *)
(***************************************************************************)
\* JS: byUser || null
OrNull(s) == IF s = "" THEN Null ELSE s

\* Mutant: a request does not overwrite a flag that is already stored.
setPublishFlag_keepFirst(c, guildId, byUser) ==
  LET r == readJSON(c, publishFile, EmptyObj)
      all == IF guildId \in DOMAIN r.val THEN r.val
             ELSE SetKey(r.val, guildId, [requestedAt |-> now, byUser |-> OrNull(byUser)])
  IN  writeJSON(r.ctx, publishFile, all)

setPublishFlag(c, guildId, byUser) ==
  LET r == readJSON(c, publishFile, EmptyObj)
      all == SetKey(r.val, guildId, [requestedAt |-> now, byUser |-> OrNull(byUser)])
  IN  writeJSON(r.ctx, publishFile, all)

\* Mutant: consume writes the document back also when it found no flag.
consumePublishFlag_alwaysWrites(c, guildId) ==
  LET r == readJSON(c, publishFile, EmptyObj)
  IN  IF guildId \in DOMAIN r.val
      THEN [ctx |-> writeJSON(r.ctx, publishFile, DelKey(r.val, guildId)),
            out |-> [pending |-> TRUE, info |-> r.val[guildId]]]
      ELSE [ctx |-> writeJSON(r.ctx, publishFile, r.val), out |-> [pending |-> FALSE]]

consumePublishFlag(c, guildId) ==
  LET r == readJSON(c, publishFile, EmptyObj)
  IN  IF guildId \in DOMAIN r.val
      THEN [ctx |-> writeJSON(r.ctx, publishFile, DelKey(r.val, guildId)),
            out |-> [pending |-> TRUE, info |-> r.val[guildId]]]
      ELSE [ctx |-> r.ctx, out |-> [pending |-> FALSE]]

\* Mutant: peek removes the flag it shows.
peekPublishFlag_consuming(c, guildId) ==
  LET r == readJSON(c, publishFile, EmptyObj)
  IN  [ctx |-> IF guildId \in DOMAIN r.val
               THEN writeJSON(r.ctx, publishFile, DelKey(r.val, guildId)) ELSE r.ctx,
       out |-> [pending |-> guildId \in DOMAIN r.val,
                info |-> GetOr(r.val, guildId, NullObj)]]

peekPublishFlag(c, guildId) ==
  LET r == readJSON(c, publishFile, EmptyObj)
  IN  [ctx |-> r.ctx,
       out |-> [pending |-> guildId \in DOMAIN r.val,
                info |-> GetOr(r.val, guildId, NullObj)]]


(***************************************************************************)
(* Request bodies are records that hold only the fields the caller sent.   *)
(***************************************************************************)
Has(body, k) == k \in DOMAIN body

\* JS: !body[k] for a string field (undefined and "" are both falsy)
Falsy(body, k) == ~Has(body, k) \/ body[k] = ""

\* JS: body[k] || dflt for a string field
StrOr(body, k, dflt) == IF Falsy(body, k) THEN dflt ELSE body[k]

UuidPool == <<"x1", "x2", "x3", "x4", "x5", "x6", "x7", "x8">>
KeyPool == <<"y1", "y2", "y3", "y4", "y5", "y6", "y7", "y8">>

\* uuidv4(): the n-th uuid the process draws
uuidv4(n) == UuidPool[n]

\* uuidv4().replace(/-/g, ""): the n-th uuid, as an API key
uuidKey(n) == KeyPool[n]

\* bcrypt.hashSync(password, 10)
hashSync(password) == [bcrypt |-> password]

\* bcrypt.compareSync(password, hash)
compareSync(password, hash) == hash.bcrypt = password

PublicUser(u) == [id |-> u.id, username |-> u.username, isAdmin |-> u.isAdmin]

\* JS: const { k } = req.body || {}
Field(body, k) == IF Has(body, k) THEN body[k] ELSE Undefined

\* jwt.sign({ uid, username, isAdmin }, secret): the claims jwt.verify returns.
jwtSign(uid, username, isAdmin) ==
  [kind |-> "jwt", uid |-> uid, username |-> username, isAdmin |-> isAdmin]

(***************************************************************************)
(* Auth: the two logins                                                    *)
(***************************************************************************)
\* An admin gate that pushes the new user before it looks for the name.
AdminUsersCreate_pushFirst(tok, body) ==
  LET c == Ctx(files)
      a == auth(tok)
  IN  IF ~a.pass THEN Reject(c, a.status, a.msg)
      ELSE IF ~a.user.isAdmin THEN Reject(c, 403, "solo admin")
      ELSE IF Falsy(body, "username") \/ Falsy(body, "password")
           THEN Reply(c, 400, [error |-> "username y password requeridos"], TRUE)
      ELSE LET r == readJSON(c, usersFile, <<>>)
               user == [id |-> uuidv4(nextUuid + 1), username |-> body.username,
                        passHash |-> hashSync(body.password),
                        isAdmin |-> (Has(body, "isAdmin") /\ body.isAdmin)]
               w == writeJSON(r.ctx, usersFile, Append(r.val, user))
           IN  IF \E i \in 1..Len(r.val) : r.val[i].username = body.username
               THEN Reply(w, 400, [error |-> "usuario ya existe"], TRUE)
               ELSE Minted(Reply(w, 200, [ok |-> TRUE, user |-> PublicUser(user)], TRUE), 1)

\* POST /api/auth/login: the body against process.env, nothing else.
Login(body) ==
  IF Field(body, "username") # env.ADMIN_USER \/ Field(body, "password") # env.ADMIN_PASS
  THEN Reply(Ctx(files), 400, [error |-> "usuario o contrasena invalidos"], TRUE)
  ELSE Reply(Ctx(files), 200,
             [token |-> jwtSign("admin", Field(body, "username"), TRUE)], TRUE)

\* A user login that does not verify the password.
LoginUser_noVerify(body) ==
  LET r == readJSON(Ctx(files), usersFile, <<>>)
      i == FindIndex(r.val, LAMBDA u : u.username = Field(body, "username"))
  IN  IF i = 0 THEN Reply(r.ctx, 400, [error |-> "usuario o contrasena invalidos"], TRUE)
      ELSE Reply(r.ctx, 200,
                 [token |-> jwtSign(r.val[i].id, r.val[i].username, r.val[i].isAdmin)], TRUE)

\* POST /api/auth/login_user: the body against the users document.
LoginUser(body) ==
  LET r == readJSON(Ctx(files), usersFile, <<>>)
      i == FindIndex(r.val, LAMBDA u : u.username = Field(body, "username"))
  IN  IF i = 0 THEN Reply(r.ctx, 400, [error |-> "usuario o contrasena invalidos"], TRUE)
      ELSE IF ~compareSync(StrOr(body, "password", ""), r.val[i].passHash)
           THEN Reply(r.ctx, 400, [error |-> "usuario o contrasena invalidos"], TRUE)
      ELSE Reply(r.ctx, 200,
                 [token |-> jwtSign(r.val[i].id, r.val[i].username, r.val[i].isAdmin)], TRUE)

(***************************************************************************)
(* seedAdmin                                                               *)
(***************************************************************************)
\* process.env.ADMIN_USER || "admin", process.env.ADMIN_PASS || "admin123"
adminUser == IF env.ADMIN_USER = Undefined THEN "admin" ELSE env.ADMIN_USER
adminPass == IF env.ADMIN_PASS = Undefined THEN "admin123" ELSE env.ADMIN_PASS

\* A seed that pushes the admin user without looking for it.
seedAdmin_always(c) ==
  LET r == readJSON(c, usersFile, <<>>)
  IN  writeJSON(r.ctx, usersFile,
                Append(r.val, [id |-> "admin", username |-> adminUser,
                               passHash |-> hashSync(adminPass), isAdmin |-> TRUE]))

seedAdmin(c) ==
  LET r == readJSON(c, usersFile, <<>>)
  IN  IF \E i \in 1..Len(r.val) : r.val[i].username = adminUser
      THEN r.ctx
      ELSE writeJSON(r.ctx, usersFile,
                     Append(r.val, [id |-> "admin", username |-> adminUser,
                                    passHash |-> hashSync(adminPass), isAdmin |-> TRUE]))

(***************************************************************************)
(* Admin gate: auth, then ensureAdmin                                      *)
(***************************************************************************)
AdminGate(c, tok) ==
  LET a == auth(tok)
  IN  IF ~a.pass THEN [pass |-> FALSE, reply |-> Reject(c, a.status, a.msg)]
      ELSE IF ~ensureAdmin(a.user)
           THEN [pass |-> FALSE,
                 reply |-> IF backend = "file" THEN Reject(c, 403, "solo admin")
                           ELSE errorHandler(c, [status |-> 403, message |-> "solo admin"])]
      ELSE [pass |-> TRUE, user |-> a.user]

\* Owner gate: auth, then ensureOwner
OwnerGate(c, tok, guildId) ==
  LET a == auth(tok)
  IN  IF ~a.pass THEN [pass |-> FALSE, reply |-> Reject(c, a.status, a.msg)]
      ELSE LET o == ensureOwner(c, a.user, guildId)
           IN  IF ~o.pass THEN [pass |-> FALSE, reply |-> Reject(o.ctx, o.status, o.msg)]
               ELSE [pass |-> TRUE, user |-> a.user, ctx |-> o.ctx]

\* Bot gate: botAuth
BotGate(c, apiKey) ==
  LET b == botAuth(c, apiKey)
  IN  IF ~b.pass THEN [pass |-> FALSE, reply |-> Reject(b.ctx, b.status, b.msg)]
      ELSE [pass |-> TRUE, bot |-> b.bot, ctx |-> b.ctx]

(***************************************************************************)
(* Admin: users                                                            *)
(***************************************************************************)
AdminUsersList(tok) ==
  LET c == Ctx(files)
      gate == AdminGate(c, tok)
  IN  IF ~gate.pass THEN gate.reply
      ELSE LET r == readJSON(c, usersFile, <<>>)
           IN  Reply(r.ctx, 200,
                     [users |-> [i \in 1..Len(r.val) |-> PublicUser(r.val[i])]], TRUE)

\* A user creation that does not look for the username.
AdminUsersCreate_anyName(tok, body) ==
  LET c == Ctx(files)
      gate == AdminGate(c, tok)
  IN  IF ~gate.pass THEN gate.reply
      ELSE IF Falsy(body, "username") \/ Falsy(body, "password")
           THEN Reply(c, 400, [error |-> "username y password requeridos"], TRUE)
      ELSE LET r == readJSON(c, usersFile, <<>>)
               user == [id |-> uuidv4(nextUuid + 1),
                        username |-> body.username,
                        passHash |-> hashSync(body.password),
                        isAdmin |-> (Has(body, "isAdmin") /\ body.isAdmin)]
           IN  Minted(Reply(writeJSON(r.ctx, usersFile, Append(r.val, user)), 200,
                            [ok |-> TRUE, user |-> PublicUser(user)], TRUE), 1)

AdminUsersCreate(tok, body) ==
  LET c == Ctx(files)
      gate == AdminGate(c, tok)
  IN  IF ~gate.pass THEN gate.reply
      ELSE IF Falsy(body, "username") \/ Falsy(body, "password")
           THEN Reply(c, 400, [error |-> "username y password requeridos"], TRUE)
      ELSE LET r == readJSON(c, usersFile, <<>>)
               users == r.val
           IN  IF \E i \in 1..Len(users) : users[i].username = body.username
               THEN Reply(r.ctx, 400, [error |-> "usuario ya existe"], TRUE)
               ELSE LET user == [id |-> uuidv4(nextUuid + 1),
                                 username |-> body.username,
                                 passHash |-> hashSync(body.password),
                                 isAdmin |-> (Has(body, "isAdmin") /\ body.isAdmin)]
                    IN  Minted(Reply(writeJSON(r.ctx, usersFile, Append(users, user)), 200,
                                     [ok |-> TRUE, user |-> PublicUser(user)], TRUE), 1)

AdminUsersUpdate(tok, id, body) ==
  LET c == Ctx(files)
      gate == AdminGate(c, tok)
  IN  IF ~gate.pass THEN gate.reply
      ELSE LET r == readJSON(c, usersFile, <<>>)
               users == r.val
               i == FindIndex(users, LAMBDA x : x.id = id)
           IN  IF i = 0 THEN Reply(r.ctx, 404, [error |-> "no existe usuario"], TRUE)
               ELSE LET u1 == IF ~Falsy(body, "username")
                              THEN [users[i] EXCEPT !.username = body.username]
                              ELSE users[i]
                        u2 == IF Has(body, "isAdmin")
                              THEN [u1 EXCEPT !.isAdmin = body.isAdmin] ELSE u1
                        u3 == IF ~Falsy(body, "password")
                              THEN [u2 EXCEPT !.passHash = hashSync(body.password)] ELSE u2
                    IN  Reply(writeJSON(r.ctx, usersFile, [users EXCEPT ![i] = u3]), 200,
                              [ok |-> TRUE, user |-> PublicUser(u3)], TRUE)

AdminUsersDelete(tok, id) ==
  LET c == Ctx(files)
      gate == AdminGate(c, tok)
  IN  IF ~gate.pass THEN gate.reply
      ELSE LET r == readJSON(c, usersFile, <<>>)
               idx == FindIndex(r.val, LAMBDA x : x.id = id)
           IN  IF idx = 0 THEN Reply(r.ctx, 404, [error |-> "no existe usuario"], TRUE)
               ELSE Reply(writeJSON(r.ctx, usersFile, Splice(r.val, idx)), 200,
                          [ok |-> TRUE], TRUE)

(***************************************************************************)
(* Admin: bots                                                             *)
(***************************************************************************)
AdminBotsList(tok) ==
  LET c == Ctx(files)
      gate == AdminGate(c, tok)
  IN  IF ~gate.pass THEN gate.reply
      ELSE LET r == readJSON(c, botsFile, <<>>)
           IN  Reply(r.ctx, 200, [bots |-> MapSafe(r.val)], TRUE)

\* The record POST /api/admin/bots builds: the body's id and apiKey are not read.
\* A credential that takes id and apiKey from the body when it has them.
NewBot_fromBody(body, n) ==
  [id |-> StrOr(body, "id", uuidv4(n + 1)),
   name |-> body.name,
   apiKey |-> StrOr(body, "apiKey", uuidKey(n + 2)),
   ownerUserId |-> Null,
   discordAppId |-> StrOr(body, "discordAppId", Null)]

NewBot(body, n) ==
  LET base == [id |-> uuidv4(n + 1),
               name |-> body.name,
               apiKey |-> uuidKey(n + 2),
               ownerUserId |-> Null,
               discordAppId |-> StrOr(body, "discordAppId", Null)]
  IN  IF Falsy(body, "token") THEN base
      ELSE [k \in DOMAIN base \cup {"token"} |-> IF k = "token" THEN body.token ELSE base[k]]

AdminBotsCreate(tok, body) ==
  LET c == Ctx(files)
      gate == AdminGate(c, tok)
  IN  IF ~gate.pass THEN gate.reply
      ELSE IF Falsy(body, "name") THEN Reply(c, 400, [error |-> "name requerido"], TRUE)
      ELSE LET r == readJSON(c, botsFile, <<>>)
               bot == NewBot(body, nextUuid)
           IN  Minted(Reply(writeJSON(r.ctx, botsFile, Append(r.val, bot)), 200,
                            [ok |-> TRUE, bot |-> safeBotView(bot)], TRUE), 2)

\* An owner assignment that answers without storing the owner.
AdminBotsOwner_unsaved(tok, botId, body) ==
  LET c == Ctx(files)
      gate == AdminGate(c, tok)
  IN  IF ~gate.pass THEN gate.reply
      ELSE LET r == readJSON(c, botsFile, <<>>)
               bots == r.val
               i == FindIndex(bots, LAMBDA x : x.id = botId)
           IN  IF i = 0 THEN Reply(r.ctx, 404, [error |-> "no existe bot"], TRUE)
               ELSE LET b == [bots[i] EXCEPT !.ownerUserId = StrOr(body, "ownerUserId", Null)]
                    IN  Reply(r.ctx, 200, [ok |-> TRUE, bot |-> safeBotView(b)], TRUE)

AdminBotsOwner(tok, botId, body) ==
  LET c == Ctx(files)
      gate == AdminGate(c, tok)
  IN  IF ~gate.pass THEN gate.reply
      ELSE LET r == readJSON(c, botsFile, <<>>)
               bots == r.val
               i == FindIndex(bots, LAMBDA x : x.id = botId)
           IN  IF i = 0 THEN Reply(r.ctx, 404, [error |-> "no existe bot"], TRUE)
               ELSE LET b == [bots[i] EXCEPT !.ownerUserId = StrOr(body, "ownerUserId", Null)]
                    IN  Reply(writeJSON(r.ctx, botsFile, [bots EXCEPT ![i] = b]), 200,
                              [ok |-> TRUE, bot |-> safeBotView(b)], TRUE)

AdminBotsSecret(tok, botId, body) ==
  LET c == Ctx(files)
      gate == AdminGate(c, tok)
  IN  IF ~gate.pass THEN gate.reply
      ELSE LET r == readJSON(c, botsFile, <<>>)
               bots == r.val
               i == FindIndex(bots, LAMBDA x : x.id = botId)
           IN  IF i = 0 THEN Reply(r.ctx, 404, [error |-> "no existe bot"], TRUE)
               ELSE LET b1 == IF Has(body, "token") THEN SetKey(bots[i], "token", body.token)
                              ELSE bots[i]
                        b2 == IF Has(body, "discordAppId")
                              THEN [b1 EXCEPT !.discordAppId = body.discordAppId] ELSE b1
                    IN  Reply(writeJSON(r.ctx, botsFile, [bots EXCEPT ![i] = b2]), 200,
                              [ok |-> TRUE], TRUE)

\* Table-backed variant only.
AdminBotsDelete(tok, botId) ==
  LET c == Ctx(files)
      gate == AdminGate(c, tok)
  IN  IF ~gate.pass THEN gate.reply
      ELSE LET r == readJSON(c, botsFile, <<>>)
               idx == FindIndex(r.val, LAMBDA x : x.id = botId)
           IN  IF idx = 0 THEN Reply(r.ctx, 404, [error |-> "no existe bot"], TRUE)
               ELSE Reply(writeJSON(r.ctx, botsFile, Splice(r.val, idx)), 200,
                          [ok |-> TRUE], TRUE)

(***************************************************************************)
(* Admin: tables, export, import, guild delete                             *)
(***************************************************************************)
\* Table-backed variant only.
AdminTables(tok) ==
  LET c == Ctx(files)
      gate == AdminGate(c, tok)
  IN  IF ~gate.pass THEN gate.reply
      ELSE LET r1 == readJSON(c, usersFile, <<>>)
               r2 == readJSON(r1.ctx, botsFile, <<>>)
               r3 == readJSON(r2.ctx, guildsFile, <<>>)
           IN  Reply(r3.ctx, 200,
                     [users |-> r1.val, bots |-> MapSafe(r2.val), guilds |-> r3.val], TRUE)

\* The seven documents, read in the order of the export payload.
ExportReads(c) ==
  LET r1 == readJSON(c, usersFile, <<>>)
      r2 == readJSON(r1.ctx, botsFile, <<>>)
      r3 == readJSON(r2.ctx, guildsFile, <<>>)
      r4 == readJSON(r3.ctx, rolesFile, EmptyObj)
      r5 == readJSON(r4.ctx, channelsFile, EmptyObj)
      r6 == readJSON(r5.ctx, cfgFile, EmptyObj)
      r7 == readJSON(r6.ctx, publishFile, EmptyObj)
  IN  [ctx |-> r7.ctx,
       payload |-> [users |-> r1.val, bots |-> r2.val, guilds |-> r3.val,
                    roles |-> r4.val, channels |-> r5.val, configs |-> r6.val,
                    publish_flags |-> r7.val]]

\* GET /api/admin/export, file-backed: bots as stored.
AdminExport_fs(tok) ==
  LET c == Ctx(files)
      gate == AdminGate(c, tok)
  IN  IF ~gate.pass THEN gate.reply
      ELSE LET e == ExportReads(c)
           IN  Reply(e.ctx, 200, e.payload, TRUE)

\* A table-backed export that hands the bots out as stored.
AdminExport_kv_stored(tok) ==
  LET c == Ctx(files)
      gate == AdminGate(c, tok)
  IN  IF ~gate.pass THEN gate.reply
      ELSE LET e == ExportReads(c)
           IN  Reply(e.ctx, 200, e.payload, TRUE)

\* GET /api/admin/export, table-backed: bots through safeBotView.
AdminExport_kv(tok) ==
  LET c == Ctx(files)
      gate == AdminGate(c, tok)
  IN  IF ~gate.pass THEN gate.reply
      ELSE LET e == ExportReads(c)
           IN  Reply(e.ctx, 200, [e.payload EXCEPT !.bots = MapSafe(@)], TRUE)

AdminExport(tok) ==
  IF backend = "file" THEN AdminExport_fs(tok) ELSE AdminExport_kv(tok)

\* if (j.<key>) await writeJSON(<file>, j.<key>)
ImportOne(c, j, key, name) == IF Has(j, key) THEN writeJSON(c, name, j[key]) ELSE c

\* An import that undoes its writes when one of them fails.
AdminImport_allOrNothing(tok, j) ==
  LET c == Ctx(files)
      gate == AdminGate(c, tok)
  IN  IF ~gate.pass THEN gate.reply
      ELSE LET c1 == ImportOne(c, j, "users", usersFile)
               c2 == ImportOne(c1, j, "bots", botsFile)
               c3 == ImportOne(c2, j, "guilds", guildsFile)
               c4 == ImportOne(c3, j, "roles", rolesFile)
               c5 == ImportOne(c4, j, "channels", channelsFile)
               c6 == ImportOne(c5, j, "configs", cfgFile)
               c7 == ImportOne(c6, j, "publish_flags", publishFile)
           IN  Reply(IF c7.thrown THEN [c7 EXCEPT !.files = files] ELSE c7,
                     200, [ok |-> TRUE], TRUE)

\* Table-backed variant only.
AdminImport(tok, j) ==
  LET c == Ctx(files)
      gate == AdminGate(c, tok)
  IN  IF ~gate.pass THEN gate.reply
      ELSE LET c1 == ImportOne(c, j, "users", usersFile)
               c2 == ImportOne(c1, j, "bots", botsFile)
               c3 == ImportOne(c2, j, "guilds", guildsFile)
               c4 == ImportOne(c3, j, "roles", rolesFile)
               c5 == ImportOne(c4, j, "channels", channelsFile)
               c6 == ImportOne(c5, j, "configs", cfgFile)
               c7 == ImportOne(c6, j, "publish_flags", publishFile)
           IN  Reply(c7, 200, [ok |-> TRUE], TRUE)

\* Table-backed variant only.
AdminGuildsDelete(tok, guildId) ==
  LET c == Ctx(files)
      gate == AdminGate(c, tok)
  IN  IF ~gate.pass THEN gate.reply
      ELSE LET r == readJSON(c, guildsFile, <<>>)
               idx == FindIndex(r.val, LAMBDA g : g.guildId = guildId)
           IN  IF idx = 0 THEN Reply(r.ctx, 404, [error |-> "no existe guild"], TRUE)
               ELSE Reply(writeJSON(r.ctx, guildsFile, Splice(r.val, idx)), 200,
                          [ok |-> TRUE], TRUE)

(***************************************************************************)
(* Client: own bots and guilds, claim                                      *)
(***************************************************************************)
MeBots(tok) ==
  LET c == Ctx(files)
      a == auth(tok)
  IN  IF ~a.pass THEN Reject(c, a.status, a.msg)
      ELSE LET r == readJSON(c, botsFile, <<>>)
               bots == MapSafe(r.val)
               mine == IF a.user.isAdmin THEN bots
                       ELSE SelectSeq(bots, LAMBDA b : b.ownerUserId = a.user.uid)
           IN  Reply(r.ctx, 200, [bots |-> mine], TRUE)

\* A guild view that hands an admin the guilds document as stored.
MeGuilds_allForAdmin(tok) ==
  LET c == Ctx(files)
      a == auth(tok)
  IN  IF ~a.pass THEN Reject(c, a.status, a.msg)
      ELSE LET r1 == readJSON(c, botsFile, <<>>)
               r2 == readJSON(r1.ctx, guildsFile, <<>>)
               bots == r1.val
               myBotIds == {bots[i].id : i \in {k \in 1..Len(bots) :
                               bots[k].ownerUserId = a.user.uid}}
           IN  Reply(r2.ctx, 200,
                     [guilds |-> IF a.user.isAdmin THEN r2.val
                                 ELSE SelectSeq(r2.val, LAMBDA g : g.botId \in myBotIds)],
                     TRUE)

MeGuilds(tok) ==
  LET c == Ctx(files)
      a == auth(tok)
  IN  IF ~a.pass THEN Reject(c, a.status, a.msg)
      ELSE LET r1 == readJSON(c, botsFile, <<>>)
               r2 == readJSON(r1.ctx, guildsFile, <<>>)
               bots == r1.val
               myBotIds == {bots[i].id : i \in {k \in 1..Len(bots) :
                               a.user.isAdmin \/ bots[k].ownerUserId = a.user.uid}}
           IN  Reply(r2.ctx, 200,
                     [guilds |-> SelectSeq(r2.val, LAMBDA g : g.botId \in myBotIds)], TRUE)

\* The upsert of POST /api/me/guilds/claim.
\* An upsert that resets name and icon when the body omits them.
ClaimUpsert_reset(guilds, botId, body) ==
  LET i == FindIndex(guilds, LAMBDA x : x.guildId = body.guildId)
      g == [guildId |-> body.guildId, botId |-> botId,
            name |-> StrOr(body, "name", "Guild"),
            icon |-> StrOr(body, "icon", Null), lastSeen |-> now]
  IN  IF i = 0 THEN Append(guilds, g) ELSE [guilds EXCEPT ![i] = g]

ClaimUpsert(guilds, botId, body) ==
  LET i == FindIndex(guilds, LAMBDA x : x.guildId = body.guildId)
  IN  IF i = 0
      THEN Append(guilds, [guildId |-> body.guildId, botId |-> botId,
                           name |-> StrOr(body, "name", "Guild"),
                           icon |-> StrOr(body, "icon", Null), lastSeen |-> now])
      ELSE [guilds EXCEPT ![i] =
              [guildId |-> @.guildId, botId |-> botId,
               name |-> StrOr(body, "name", @.name),
               icon |-> StrOr(body, "icon", @.icon), lastSeen |-> now]]

\* A claim that does not compare the bot's owner with the caller.
MeClaim_anyCaller(tok, body) ==
  LET c == Ctx(files)
      a == auth(tok)
  IN  IF ~a.pass THEN Reject(c, a.status, a.msg)
      ELSE IF Falsy(body, "botId") \/ Falsy(body, "guildId")
           THEN Reply(c, 400, [error |-> "botId y guildId requeridos"], TRUE)
      ELSE LET r1 == readJSON(c, botsFile, <<>>)
               bi == FindIndex(r1.val, LAMBDA x : x.id = body.botId)
           IN  IF bi = 0 THEN Reply(r1.ctx, 404, [error |-> "bot no existe"], TRUE)
               ELSE LET r2 == readJSON(r1.ctx, guildsFile, <<>>)
                        guilds == ClaimUpsert(r2.val, r1.val[bi].id, body)
                        gi == FindIndex(guilds, LAMBDA x : x.guildId = body.guildId)
                    IN  Reply(writeJSON(r2.ctx, guildsFile, guilds), 200,
                              [ok |-> TRUE, guild |-> guilds[gi]], TRUE)

MeClaim(tok, body) ==
  LET c == Ctx(files)
      a == auth(tok)
  IN  IF ~a.pass THEN Reject(c, a.status, a.msg)
      ELSE IF Falsy(body, "botId") \/ Falsy(body, "guildId")
           THEN Reply(c, 400, [error |-> "botId y guildId requeridos"], TRUE)
      ELSE LET r1 == readJSON(c, botsFile, <<>>)
               bi == FindIndex(r1.val, LAMBDA x : x.id = body.botId)
           IN  IF bi = 0 THEN Reply(r1.ctx, 404, [error |-> "bot no existe"], TRUE)
               ELSE IF ~a.user.isAdmin /\ r1.val[bi].ownerUserId # a.user.uid
                    THEN Reply(r1.ctx, 403, [error |-> "no eres dueno de ese bot"], TRUE)
               ELSE LET r2 == readJSON(r1.ctx, guildsFile, <<>>)
                        guilds == ClaimUpsert(r2.val, r1.val[bi].id, body)
                        gi == FindIndex(guilds, LAMBDA x : x.guildId = body.guildId)
                    IN  Reply(writeJSON(r2.ctx, guildsFile, guilds), 200,
                              [ok |-> TRUE, guild |-> guilds[gi]], TRUE)

(***************************************************************************)
(* Bot: register, roles, channels, config, publish poll                    *)
(***************************************************************************)
\* The upsert of POST /api/bot/register.
\* An upsert that never looks for the binding: it appends.
RegisterUpsert_append(guilds, botId, body) ==
  Append(guilds, [guildId |-> body.guildId, botId |-> botId,
                  name |-> StrOr(body, "guildName", "Guild"),
                  icon |-> StrOr(body, "icon", Null), lastSeen |-> now])

RegisterUpsert(guilds, botId, body) ==
  LET i == FindIndex(guilds, LAMBDA x : x.guildId = body.guildId)
  IN  IF i = 0
      THEN Append(guilds, [guildId |-> body.guildId, botId |-> botId,
                           name |-> StrOr(body, "guildName", "Guild"),
                           icon |-> StrOr(body, "icon", Null), lastSeen |-> now])
      ELSE [guilds EXCEPT ![i] =
              [guildId |-> @.guildId, botId |-> botId,
               name |-> StrOr(body, "guildName", @.name),
               icon |-> StrOr(body, "icon", @.icon), lastSeen |-> now]]

BotRegisterOn(c, apiKey, body) ==
  LET gate == BotGate(c, apiKey)
  IN  IF ~gate.pass THEN gate.reply
      ELSE IF Falsy(body, "guildId")
           THEN Reply(gate.ctx, 400, [error |-> "guildId requerido"], TRUE)
      ELSE LET r == readJSON(gate.ctx, guildsFile, <<>>)
           IN  Reply(writeJSON(r.ctx, guildsFile, RegisterUpsert(r.val, gate.bot.id, body)),
                     200, [ok |-> TRUE], TRUE)

BotRegister(apiKey, body) == BotRegisterOn(Ctx(files), apiKey, body)

\* POST /api/guilds/:guildId/roles and /channels: body[key] must be an array;
\* a body whose field is missing or not an array is modelled as a body without it.
\* A push that is refused for a guild that is not bound to the caller's bot.
BotPush_ownGuild(apiKey, guildId, body, key, name, msg) ==
  LET gate == BotGate(Ctx(files), apiKey)
  IN  IF ~gate.pass THEN gate.reply
      ELSE IF ~Has(body, key) THEN Reply(gate.ctx, 400, [error |-> msg], TRUE)
      ELSE LET g == readJSON(gate.ctx, guildsFile, <<>>)
               r == readJSON(g.ctx, name, EmptyObj)
           IN  IF \E i \in DOMAIN g.val :
                    g.val[i].guildId = guildId /\ g.val[i].botId = gate.bot.id
               THEN Reply(writeJSON(r.ctx, name, SetKey(r.val, guildId, body[key])), 200,
                          [ok |-> TRUE], TRUE)
               ELSE Reply(r.ctx, 403, [error |-> "guild de otro bot"], TRUE)

BotPush(apiKey, guildId, body, key, name, msg) ==
  LET gate == BotGate(Ctx(files), apiKey)
  IN  IF ~gate.pass THEN gate.reply
      ELSE IF ~Has(body, key) THEN Reply(gate.ctx, 400, [error |-> msg], TRUE)
      ELSE LET r == readJSON(gate.ctx, name, EmptyObj)
           IN  Reply(writeJSON(r.ctx, name, SetKey(r.val, guildId, body[key])), 200,
                     [ok |-> TRUE], TRUE)

BotRoles(apiKey, guildId, body) ==
  BotPush(apiKey, guildId, body, "roles", rolesFile, "roles[] requerido")

BotChannels(apiKey, guildId, body) ==
  BotPush(apiKey, guildId, body, "channels", channelsFile, "channels[] requerido")

defaultConfig ==
  [brand |-> [name |-> "Service Bot", icon |-> "https://i.imgur.com/S2hhXYT.png"],
   panel |-> [bannerUrl |-> "https://i.imgur.com/hc282wH.png",
              theme |-> [bg |-> "#0f0f10", accent |-> "#6e57ff", text |-> "#ffffff"],
              title |-> "Panel de Tickets",
              layout |-> "list"],
   channels |-> [panelChannelId |-> Null, logChannelId |-> Null, ratingsChannelId |-> Null],
   buttons |-> <<[id |-> "ticket_general", title |-> "Soporte General",
                  subtitle |-> "Ayuda en general.", label |-> "Soporte",
                  emoji |-> "speech_balloon", order |-> 1, visible |-> TRUE]>>,
   forms |-> [ticket_general |->
                [title |-> "Formulario",
                 fields |-> <<[type |-> "short", id |-> "usuario",
                               label |-> "Nombre de usuario?", placeholder |-> "Tu nick",
                               required |-> TRUE, maxLen |-> 100],
                              [type |-> "paragraph", id |-> "problema",
                               label |-> "Problema", placeholder |-> "Describe tu situacion",
                               required |-> TRUE, maxLen |-> 1000]>>]],
   permissions |-> [staffRoleId |-> Null, highStaffRoleId |-> Null, buycraftRoleId |-> Null,
                    commands |-> [reiniciarreclamos |-> "highStaff", reclamos |-> "staff"]],
   misc |-> [tiendaUrl |-> "tienda.com", serverIp |-> "Server.net"]]

\* A config read that stores the default it answers with.
BotConfig_persist(apiKey, guildId) ==
  LET gate == BotGate(Ctx(files), apiKey)
  IN  IF ~gate.pass THEN gate.reply
      ELSE LET r == readJSON(gate.ctx, cfgFile, EmptyObj)
           IN  IF guildId \in DOMAIN r.val THEN Reply(r.ctx, 200, r.val[guildId], TRUE)
               ELSE Reply(writeJSON(r.ctx, cfgFile, SetKey(r.val, guildId, defaultConfig)),
                          200, defaultConfig, TRUE)

BotConfig(apiKey, guildId) ==
  LET gate == BotGate(Ctx(files), apiKey)
  IN  IF ~gate.pass THEN gate.reply
      ELSE LET r == readJSON(gate.ctx, cfgFile, EmptyObj)
           IN  Reply(r.ctx, 200, GetOr(r.val, guildId, defaultConfig), TRUE)

BotPublishOn(c, apiKey, guildId, consume) ==
  LET gate == BotGate(c, apiKey)
  IN  IF ~gate.pass THEN gate.reply
      ELSE LET p == IF consume THEN consumePublishFlag(gate.ctx, guildId)
                    ELSE peekPublishFlag(gate.ctx, guildId)
           IN  Reply(p.ctx, 200, p.out, TRUE)

BotPublish(apiKey, guildId, consume) == BotPublishOn(Ctx(files), apiKey, guildId, consume)

(***************************************************************************)
(* Panel: roles, channels, config, publish (owner or admin)                *)
(***************************************************************************)
PanelRoles(tok, guildId) ==
  LET gate == OwnerGate(Ctx(files), tok, guildId)
  IN  IF ~gate.pass THEN gate.reply
      ELSE LET r == readJSON(gate.ctx, rolesFile, EmptyObj)
           IN  Reply(r.ctx, 200, [roles |-> GetOr(r.val, guildId, <<>>)], TRUE)

PanelChannels(tok, guildId) ==
  LET gate == OwnerGate(Ctx(files), tok, guildId)
  IN  IF ~gate.pass THEN gate.reply
      ELSE LET r == readJSON(gate.ctx, channelsFile, EmptyObj)
           IN  Reply(r.ctx, 200, [channels |-> GetOr(r.val, guildId, <<>>)], TRUE)

PanelConfigGet(tok, guildId) ==
  LET gate == OwnerGate(Ctx(files), tok, guildId)
  IN  IF ~gate.pass THEN gate.reply
      ELSE LET r == readJSON(gate.ctx, cfgFile, EmptyObj)
           IN  Reply(r.ctx, 200, GetOr(r.val, guildId, defaultConfig), TRUE)

\* A config save that lays the body over what is stored for the guild.
PanelConfigPut_merge(tok, guildId, body) ==
  LET gate == OwnerGate(Ctx(files), tok, guildId)
  IN  IF ~gate.pass THEN gate.reply
      ELSE LET r == readJSON(gate.ctx, cfgFile, EmptyObj)
               old == GetOr(r.val, guildId, EmptyObj)
               new == [k \in DOMAIN old \cup DOMAIN body |->
                         IF k \in DOMAIN body THEN body[k] ELSE old[k]]
           IN  Reply(writeJSON(r.ctx, cfgFile, SetKey(r.val, guildId, new)), 200,
                     [ok |-> TRUE], TRUE)

PanelConfigPut(tok, guildId, body) ==
  LET gate == OwnerGate(Ctx(files), tok, guildId)
  IN  IF ~gate.pass THEN gate.reply
      ELSE LET r == readJSON(gate.ctx, cfgFile, EmptyObj)
           IN  Reply(writeJSON(r.ctx, cfgFile, SetKey(r.val, guildId, body)), 200,
                     [ok |-> TRUE], TRUE)

PanelPublishOn(c, tok, guildId) ==
  LET gate == OwnerGate(c, tok, guildId)
  IN  IF ~gate.pass THEN gate.reply
      ELSE Reply(setPublishFlag(gate.ctx, guildId, gate.user.username), 200,
                 [ok |-> TRUE, requestedAt |-> now], TRUE)

PanelPublish(tok, guildId) == PanelPublishOn(Ctx(files), tok, guildId)

\* The 404 fall-through: no route matches the request.
NotFound == Reply(Ctx(files), 404, [text |-> "Not found"], FALSE)

(***************************************************************************)
(* The world the scenarios start from                                      *)
(***************************************************************************)
TokAdmin == [kind |-> "jwt", uid |-> "admin", username |-> "admin", isAdmin |-> TRUE]
TokAlice == [kind |-> "jwt", uid |-> "u1", username |-> "alice", isAdmin |-> FALSE]
TokBob == [kind |-> "jwt", uid |-> "u2", username |-> "bob", isAdmin |-> FALSE]

\* The user seedAdmin creates.
SeedUser ==
  [id |-> "admin", username |-> "admin", passHash |-> hashSync("admin123"), isAdmin |-> TRUE]

Users0 ==
  <<SeedUser,
    [id |-> "u1", username |-> "alice", passHash |-> hashSync("pw1"), isAdmin |-> FALSE],
    [id |-> "u2", username |-> "bob", passHash |-> hashSync("pw2"), isAdmin |-> FALSE]>>

Bots0 ==
  <<[id |-> "b1", name |-> "Helper", apiKey |-> "k1", ownerUserId |-> "u1",
     discordAppId |-> Null, token |-> "secret1"],
    [id |-> "b2", name |-> "Other", apiKey |-> "k2", ownerUserId |-> "u2",
     discordAppId |-> "app2"]>>

Guilds0 ==
  <<[guildId |-> "g1", botId |-> "b1", name |-> "Guild", icon |-> Null, lastSeen |-> 0],
    [guildId |-> "g2", botId |-> "b2", name |-> "Two", icon |-> "i2", lastSeen |-> 0]>>

\* After the seed step alone: only the users document exists.
FreshFiles == [d \in DocNames |-> IF d = usersFile THEN Doc(<<SeedUser>>) ELSE Absent]

\* Users, bots and guild bindings set up; the per-guild documents never touched.
BaseFiles ==
  [d \in DocNames |->
     IF d = usersFile THEN Doc(Users0)
     ELSE IF d = botsFile THEN Doc(Bots0)
     ELSE IF d = guildsFile THEN Doc(Guilds0)
     ELSE Absent]

\* process.env without ADMIN_USER and ADMIN_PASS.
NoEnv == [ADMIN_USER |-> Undefined, ADMIN_PASS |-> Undefined]

\* process.env with both set.
SetEnv == [ADMIN_USER |-> "root", ADMIN_PASS |-> "rootpw"]

\* No panel SDK is loaded.
NoSdk == [pc |-> "off"]

\* The store level is not in use.
NoDisk == <<>>
NoRows == <<>>

NoRequest ==
  [ep |-> "none", tok |-> NoTok, key |-> NoKey, guild |-> Null, arg |-> EmptyObj,
   status |-> 0, body |-> EmptyObj, ran |-> FALSE, reads |-> {}, mats |-> {}, writes |-> {},
   ops |-> <<>>]

NoStep == [proc |-> 0, op |-> "none", guild |-> Null, kind |-> "none"]

(***************************************************************************)
(* Serving one request without interleaving                                *)
(***************************************************************************)
TableOnly == {"admin.bots.delete", "admin.tables", "admin.import", "admin.guilds.delete"}

\* What the client gets when a storage call threw out of the handler: the
\* table-backed variant passes the error to its JSON error handler (wrap,
\* next(err)), the file-backed one leaves it to the default handler of express.
\* Both answer 500.
Thrown(reply) ==
  [reply EXCEPT !.status = 500, !.body = [error |-> "Internal error"]]

\* The routes of the file-backed variant do not include the table-only ones.
Route(ep, reply) ==
  IF backend = "file" /\ ep \in TableOnly THEN NotFound
  ELSE IF reply.ctx.thrown THEN Thrown(reply)
  ELSE reply

\* Scenarios that keep the window of the last requests.
Logging == scn \in {"publish", "reassign", "seed", "config", "login", "stale", "roundtrip"}

Serve(ep, tok, key, guild, arg, handled) ==
  LET reply == Route(ep, handled)
  IN  /\ budget > 0
      /\ files' = reply.ctx.files
      /\ nextUuid' = nextUuid + reply.uuids
      /\ last' = [ep |-> ep, tok |-> tok, key |-> key, guild |-> guild, arg |-> arg,
                  status |-> reply.status, body |-> reply.body, ran |-> reply.ran,
                  reads |-> reply.ctx.reads, mats |-> reply.ctx.mats,
                  writes |-> reply.ctx.writes, ops |-> reply.ctx.ops]
      /\ log' = IF Logging THEN <<log[2], log[3], last>> ELSE log
      /\ budget' = budget - 1
      /\ issued' = IF "token" \in DOMAIN reply.body THEN issued \cup {reply.body.token}
                    ELSE issued
      /\ UNCHANGED <<backend, now, scn, procs, step, made, delivered, env, disk, rows,
                     faults, sdk>>

\* Date.now() moves on.
Tick ==
  /\ now < MaxNow
  /\ now' = now + 1
  /\ UNCHANGED <<backend, files, issued, nextUuid, last, log, scn, budget,
                 procs, step, made, delivered, env, disk, rows, faults, sdk>>

(***************************************************************************)
(* The requests a scenario draws from                                      *)
(***************************************************************************)
Sessions == issued \cup {NoTok, BadTok}

PanelToks ==
  CASE scn = "reassign" -> {t \in issued : ~t.isAdmin}
    [] scn = "all" -> Sessions
    [] OTHER -> issued

AdminToks ==
  CASE scn = "reassign" -> {t \in issued : t.isAdmin}
    [] scn = "all" -> Sessions
    [] OTHER -> issued

MeToks == IF scn = "all" THEN Sessions ELSE issued

PanelGuilds ==
  CASE scn = "reassign" -> {"g1"}
    [] scn = "dangling" -> {"g1", "g2", "g3"}
    [] OTHER -> GuildIds

BotKeys ==
  CASE scn = "publish" -> {"k1"}
    [] scn = "all" -> {NoKey, "bogus", "k1"}
    [] scn = "bind" -> {"k1", "k2"}
    [] scn = "bots" -> {NoKey, "bogus", "k1", "k2"}
    [] scn = "replace" -> {"k1"}
    [] OTHER -> {"k1", "bogus"}

ConfigBodies ==
  IF scn = "replace"
  THEN {[brand |-> [name |-> "Acme"]], [misc |-> [serverIp |-> "play.net"]], EmptyObj}
  ELSE {[brand |-> [name |-> "Acme"]]}

UserIdsAsked ==
  CASE scn = "stale" -> {"u1", "u2"}
    [] scn = "ids" -> {"admin", "x1"}
    [] OTHER -> {"u1", "nobody"}

BotIdsAsked == IF scn = "reassign" THEN {"b1"} ELSE {"b1", "nobot"}

UserCreateBodies ==
  IF scn = "all" THEN {[username |-> "carol", password |-> "pw3"]}
  ELSE {[username |-> "carol", password |-> "pw3", isAdmin |-> TRUE],
        [username |-> "alice", password |-> "pw3"],
        [username |-> "dave"]}

UserUpdateBodies ==
  CASE scn = "all" -> {[isAdmin |-> TRUE]}
    [] scn = "stale" -> {[isAdmin |-> FALSE]}
    [] OTHER -> {[username |-> "bob"], [username |-> "admin"], [isAdmin |-> TRUE, password |-> "pw9"]}

BotCreateBodies ==
  IF scn = "all" THEN {[name |-> "New"]}
  ELSE {[name |-> "New", token |-> "secret3", id |-> "b1", apiKey |-> "k1"],
        [name |-> "New", discordAppId |-> "app3"],
        [discordAppId |-> "app3"]}

OwnerBodies ==
  CASE scn = "reassign" -> {[ownerUserId |-> "u1"], [ownerUserId |-> "u2"]}
    [] scn = "all" -> {[ownerUserId |-> "u2"]}
    [] scn = "dangling" -> {[ownerUserId |-> "ghost"], EmptyObj}
    [] OTHER -> {[ownerUserId |-> "u2"], EmptyObj}

SecretBodies ==
  IF scn = "all" THEN {[token |-> "secret9"]}
  ELSE {[token |-> "secret9"], [discordAppId |-> "app9"]}

ImportBodies ==
  CASE scn = "all" -> {[bots |-> <<>>]}
    [] scn = "roundtrip" ->
         IF last.ep = "admin.export" /\ last.status = 200 THEN {last.body} ELSE {}
    [] scn = "fault" ->
         {[users |-> <<SeedUser>>, guilds |-> <<>>,
           configs |-> [g \in {"g1"} |-> [brand |-> [name |-> "Acme"]]]],
          [bots |-> <<Bots0[2]>>, publish_flags |-> EmptyObj]}
    [] OTHER ->
       {[bots |-> <<Bots0[2]>>, publish_flags |-> EmptyObj],
        [users |-> <<SeedUser>>, guilds |-> <<>>]}

ClaimBodies ==
  IF scn = "bind"
  THEN {[botId |-> "b1", guildId |-> "g2"],
        [botId |-> "b1", guildId |-> "g2", name |-> "Mine", icon |-> "i7"],
        [botId |-> "b2", guildId |-> "g3", name |-> "Three"],
        [botId |-> "nobot", guildId |-> "g1"]}
  ELSE
  {[botId |-> "b1", guildId |-> "g2"],
   [botId |-> "b2", guildId |-> "g3", name |-> "Three"],
   [botId |-> "nobot", guildId |-> "g1"],
   [guildId |-> "g1"]}

RegisterBodies ==
  IF scn = "bind"
  THEN {[guildId |-> "g2"], [guildId |-> "g2", guildName |-> "Renamed", icon |-> "i9"],
        [guildId |-> "g3"], EmptyObj}
  ELSE {[guildId |-> "g2", guildName |-> "Renamed"], [guildId |-> "g3"], EmptyObj}

LoginBodies ==
  IF scn = "login"
  THEN {[username |-> "alice", password |-> "pw1"],
        [username |-> "alice", password |-> "pw9"],
        [username |-> "bob", password |-> "pw1"],
        [username |-> "bob", password |-> "pw2"],
        [username |-> "admin", password |-> "admin123"],
        [username |-> "nobody", password |-> "pw1"],
        [username |-> "alice"],
        EmptyObj}
  ELSE
  {[username |-> "admin", password |-> "admin123"],
   [username |-> "root", password |-> "rootpw"],
   [username |-> "alice", password |-> "pw1"],
   [username |-> "alice", password |-> "bad"],
   [password |-> "pw1"],
   EmptyObj}

PushBodies(key) ==
  IF scn = "replace"
  THEN {[k \in {key} |-> <<"r1">>], [k \in {key} |-> <<"r2", "r3">>], [k \in {key} |-> <<>>]}
  ELSE {[k \in {key} |-> <<"r1">>], EmptyObj}

\* The part of a request that is neither credential nor guild.
NoArg == EmptyObj

(***************************************************************************)
(* One action per route                                                    *)
(***************************************************************************)
ReqAdminUsersList ==
  \E tok \in AdminToks :
    Serve("admin.users.list", tok, NoKey, Null, NoArg, AdminUsersList(tok))

ReqAdminUsersCreate ==
  \E tok \in AdminToks, body \in UserCreateBodies :
    /\ nextUuid + 1 <= MaxUuid
    /\ Serve("admin.users.create", tok, NoKey, Null, [body |-> body],
             AdminUsersCreate(tok, body))

ReqAdminUsersUpdate ==
  \E tok \in AdminToks, id \in UserIdsAsked, body \in UserUpdateBodies :
    Serve("admin.users.update", tok, NoKey, Null, [id |-> id, body |-> body],
          AdminUsersUpdate(tok, id, body))

ReqAdminUsersDelete ==
  \E tok \in AdminToks, id \in UserIdsAsked :
    Serve("admin.users.delete", tok, NoKey, Null, [id |-> id], AdminUsersDelete(tok, id))

ReqAdminBotsList ==
  \E tok \in AdminToks :
    Serve("admin.bots.list", tok, NoKey, Null, NoArg, AdminBotsList(tok))

ReqAdminBotsCreate ==
  \E tok \in AdminToks, body \in BotCreateBodies :
    /\ nextUuid + 2 <= MaxUuid
    /\ Serve("admin.bots.create", tok, NoKey, Null, [body |-> body],
             AdminBotsCreate(tok, body))

ReqAdminBotsOwner ==
  \E tok \in AdminToks, id \in BotIdsAsked, body \in OwnerBodies :
    Serve("admin.bots.owner", tok, NoKey, Null, [id |-> id, body |-> body],
          AdminBotsOwner(tok, id, body))

ReqAdminBotsSecret ==
  \E tok \in AdminToks, id \in BotIdsAsked, body \in SecretBodies :
    Serve("admin.bots.secret", tok, NoKey, Null, [id |-> id, body |-> body],
          AdminBotsSecret(tok, id, body))

ReqAdminBotsDelete ==
  \E tok \in AdminToks, id \in BotIdsAsked :
    Serve("admin.bots.delete", tok, NoKey, Null, [id |-> id], AdminBotsDelete(tok, id))

ReqAdminTables ==
  \E tok \in AdminToks :
    Serve("admin.tables", tok, NoKey, Null, NoArg, AdminTables(tok))

ReqAdminExport ==
  \E tok \in AdminToks :
    Serve("admin.export", tok, NoKey, Null, NoArg, AdminExport(tok))

ReqAdminImport ==
  \E tok \in AdminToks, j \in ImportBodies :
    Serve("admin.import", tok, NoKey, Null, [body |-> j], AdminImport(tok, j))

ReqAdminGuildsDelete ==
  \E tok \in AdminToks, g \in GuildIds :
    Serve("admin.guilds.delete", tok, NoKey, g, NoArg, AdminGuildsDelete(tok, g))

ReqMeBots ==
  \E tok \in MeToks :
    Serve("me.bots", tok, NoKey, Null, NoArg, MeBots(tok))

ReqMeGuilds ==
  \E tok \in MeToks :
    Serve("me.guilds", tok, NoKey, Null, NoArg, MeGuilds(tok))

ReqMeClaim ==
  \E tok \in MeToks, body \in ClaimBodies :
    Serve("me.claim", tok, NoKey, Null, [body |-> body], MeClaim(tok, body))

ReqBotRegister ==
  \E key \in BotKeys, body \in RegisterBodies :
    Serve("bot.register", NoTok, key, Null, [body |-> body], BotRegister(key, body))

ReqBotRoles ==
  \E key \in BotKeys, g \in GuildIds, body \in PushBodies("roles") :
    Serve("bot.roles", NoTok, key, g, [body |-> body], BotRoles(key, g, body))

ReqBotChannels ==
  \E key \in BotKeys, g \in GuildIds, body \in PushBodies("channels") :
    Serve("bot.channels", NoTok, key, g, [body |-> body], BotChannels(key, g, body))

ReqBotConfig ==
  \E key \in BotKeys, g \in GuildIds :
    Serve("bot.config", NoTok, key, g, NoArg, BotConfig(key, g))

ReqBotPublish ==
  \E key \in BotKeys, g \in GuildIds, consume \in BOOLEAN :
    Serve("bot.publish", NoTok, key, g, [consume |-> consume], BotPublish(key, g, consume))

ReqPanelRoles ==
  \E tok \in PanelToks, g \in PanelGuilds :
    Serve("panel.roles", tok, NoKey, g, NoArg, PanelRoles(tok, g))

ReqPanelChannels ==
  \E tok \in PanelToks, g \in PanelGuilds :
    Serve("panel.channels", tok, NoKey, g, NoArg, PanelChannels(tok, g))

ReqPanelConfigGet ==
  \E tok \in PanelToks, g \in PanelGuilds :
    Serve("panel.config.get", tok, NoKey, g, NoArg, PanelConfigGet(tok, g))

ReqPanelConfigPut ==
  \E tok \in PanelToks, g \in PanelGuilds, body \in ConfigBodies :
    Serve("panel.config.put", tok, NoKey, g, [body |-> body], PanelConfigPut(tok, g, body))

ReqPanelPublish ==
  \E tok \in PanelToks, g \in PanelGuilds :
    Serve("panel.publish", tok, NoKey, g, NoArg, PanelPublish(tok, g))

ReqLogin ==
  \E body \in LoginBodies :
    Serve("auth.login", NoTok, NoKey, Null, [body |-> body], Login(body))

ReqLoginUser ==
  \E body \in LoginBodies :
    Serve("auth.login_user", NoTok, NoKey, Null, [body |-> body], LoginUser(body))

\* The process starts: seedAdmin runs to its end.
Seed ==
  Serve("seed", NoTok, NoKey, Null, NoArg, Reply(seedAdmin(Ctx(files)), 0, EmptyObj, TRUE))

\* What every scenario that serves requests one at a time starts with.
InitServe(s, b) ==
  /\ scn = s
  /\ backend \in {"file", "table"}
  /\ now = 0
  /\ nextUuid = 0
  /\ last = NoRequest
  /\ log = <<NoRequest, NoRequest, NoRequest>>
  /\ budget = b
  /\ procs = <<>>
  /\ step = NoStep
  /\ made = [g \in GuildIds |-> 0]
  /\ delivered = [g \in GuildIds |-> 0]
  /\ env \in (IF s \in {"input", "seed"} THEN {NoEnv, SetEnv} ELSE {NoEnv})
  /\ disk = NoDisk
  /\ rows = NoRows
  /\ faults \in (IF s = "fault" THEN FaultPlans ELSE {NoFaults})
  /\ sdk = NoSdk

(***************************************************************************)
(* Scenario: the publish handshake, requests served one at a time          *)
(***************************************************************************)
InitPublish ==
  /\ InitServe("publish", MaxChain)
  /\ files = BaseFiles
  /\ issued = {TokAdmin, TokAlice}

NextPublish == ReqPanelPublish \/ ReqBotPublish \/ Tick

SpecPublish == InitPublish /\ [][NextPublish]_vars

(***************************************************************************)
(* Publish handshake: what the claims speak of                             *)
(***************************************************************************)
\* The stored publish flags (no document yet: no flags).
Flags == IF files[publishFile].present THEN files[publishFile].data ELSE EmptyObj

\* A step that served a request (Tick and stuttering leave last and log alone).
Served == <<last, log, budget>>' # <<last, log, budget>>

IsRequest(e, g) == e.ep = "panel.publish" /\ e.guild = g /\ e.status = 200
IsPeek(e, g) == e.ep = "bot.publish" /\ e.guild = g /\ e.status = 200 /\ ~e.arg.consume
IsConsume(e, g) == e.ep = "bot.publish" /\ e.guild = g /\ e.status = 200 /\ e.arg.consume

\* C1, step by step: (a) request(g, u) stores a flag with byUser = u;
\* (b) a peek(g) right after it answers pending=true with info.byUser = u, the
\* info being the stored flag, and leaves all flags as they were; (c) the
\* consume(g) after that peek answers pending=true with the info the peek
\* showed and leaves g empty; (d) the consume(g) after that answers
\* pending=false.
C1Step ==
  \A g \in GuildIds :
    /\ (Served /\ IsRequest(last', g))
         => g \in DOMAIN Flags' /\ Flags'[g].byUser = last'.tok.username
    /\ (Served /\ IsRequest(last, g) /\ IsPeek(last', g))
         => /\ last'.body.pending
            /\ last'.body.info.byUser = last.tok.username
            /\ last'.body.info = Flags[g]
            /\ Flags' = Flags
    /\ (Served /\ IsRequest(log[3], g) /\ IsPeek(last, g) /\ IsConsume(last', g))
         => /\ last'.body = [pending |-> TRUE, info |-> last.body.info]
            /\ g \notin DOMAIN Flags'
    /\ (Served /\ IsRequest(log[2], g) /\ IsPeek(log[3], g) /\ IsConsume(last, g)
          /\ IsConsume(last', g))
         => last'.body = [pending |-> FALSE]

\* C1: request(g, u); peek(g); consume(g); consume(g) answer as the publish
\* handshake says: the peek shows the flag of u without side effect, the first
\* consume returns that same flag and empties g, the second finds nothing.
C1_Handshake == [][C1Step]_vars

\* The handshake has run to its end: request, peek, consume, consume on one guild.
C1_Witness ==
  \E g \in GuildIds :
    /\ IsRequest(log[1], g) /\ IsPeek(log[2], g) /\ IsConsume(log[3], g)
    /\ IsConsume(last, g)
    /\ log[3].body.pending /\ log[3].body.info.byUser = log[1].tok.username
    /\ ~last.body.pending

\* C2, step by step: (a) a request(g, b) right after a request(g, a) leaves
\* one flag for g, the one of b; (b) the consume(g) after the two requests
\* returns the flag of b and empties g; (c) the consume(g) after that finds
\* nothing: the flag of a was not queued behind the one of b.
C2Step ==
  \A g \in GuildIds :
    /\ (Served /\ IsRequest(last, g) /\ IsRequest(last', g))
         => /\ g \in DOMAIN Flags'
            /\ Flags'[g] = [requestedAt |-> now, byUser |-> last'.tok.username]
    /\ (Served /\ IsRequest(log[3], g) /\ IsRequest(last, g) /\ IsConsume(last', g))
         => /\ last'.body.pending
            /\ last'.body.info = Flags[g]
            /\ last'.body.info.byUser = last.tok.username
            /\ g \notin DOMAIN Flags'
    /\ (Served /\ IsRequest(log[2], g) /\ IsRequest(log[3], g) /\ IsConsume(last, g)
          /\ IsConsume(last', g))
         => last'.body = [pending |-> FALSE]

\* C2: a second request before a consume overwrites the flag: one flag is
\* stored, the next consume returns the second requester, and no later consume
\* returns the first request's flag.
C2_Overwrite == [][C2Step]_vars

\* Two requests by different users, then two consumes, on one guild.
C2_Witness ==
  \E g \in GuildIds :
    /\ IsRequest(log[1], g) /\ IsRequest(log[2], g) /\ IsConsume(log[3], g)
    /\ IsConsume(last, g)
    /\ log[1].tok.username # log[2].tok.username
    /\ log[3].body.pending /\ log[3].body.info.byUser = log[2].tok.username
    /\ ~last.body.pending

\* C5, step by step: a peek leaves the flags of all guilds as they were and
\* does not call writeJSON; a consume of a guild with no flag answers
\* pending=false, leaves the flags as they were and does not call writeJSON.
C5Step ==
  \A g \in GuildIds :
    /\ (Served /\ IsPeek(last', g))
         => /\ Flags' = Flags
            /\ last'.writes = {}
            /\ last'.body.pending = (g \in DOMAIN Flags)
    /\ (Served /\ IsConsume(last', g) /\ g \notin DOMAIN Flags)
         => /\ last'.body = [pending |-> FALSE]
            /\ Flags' = Flags
            /\ last'.writes = {}

\* C5: peek never changes the stored flags, in either state of the guild, and
\* a consume of an empty guild is a no-op that writes nothing.
C5_PeekAndEmptyConsume == [][C5Step]_vars

\* A peek of a pending guild, a peek of an empty one while another guild is
\* pending, and a consume of an empty guild have all been served.
C5_Witness ==
  \E g \in GuildIds : \E h \in GuildIds \ {g} :
    /\ IsPeek(log[2], g) /\ log[2].body.pending
    /\ IsPeek(log[3], h) /\ ~log[3].body.pending
    /\ IsConsume(last, h) /\ ~last.body.pending
    /\ g \in DOMAIN Flags

(***************************************************************************)
(* Scenario: publish handlers of the table-backed variant in flight        *)
(* together.  A handler yields at every await of a pool.query; the query   *)
(* itself is one step of the database.                                     *)
(***************************************************************************)
NumProcs == 2

Procs == 1..NumProcs

Idle ==
  [pc |-> "idle", op |-> "none", guild |-> Null, tok |-> NoTok, key |-> NoKey,
   guilds |-> <<>>, all |-> EmptyObj, val |-> NullObj, status |-> 0, body |-> EmptyObj]

InitConc ==
  /\ backend = "table"
  /\ files \in {BaseFiles, [BaseFiles EXCEPT ![publishFile] = Doc(EmptyObj)]}
  /\ issued = {TokAdmin, TokAlice}
  /\ now = 0
  /\ nextUuid = 0
  /\ last = NoRequest
  /\ log = <<NoRequest, NoRequest, NoRequest>>
  /\ scn = "conc"
  /\ budget = MaxStarts
  /\ procs = [p \in Procs |-> Idle]
  /\ step = NoStep
  /\ made = [g \in GuildIds |-> 0]
  /\ delivered = [g \in GuildIds |-> 0]
  /\ env = NoEnv
  /\ disk = NoDisk
  /\ rows = NoRows
  /\ faults = NoFaults
  /\ sdk = NoSdk

concFrame == <<backend, issued, now, nextUuid, last, log, scn, env, disk, rows, faults, sdk>>

Free(p) == procs[p].pc \in {"idle", "done"}

Finish(pr, status, body) == [pr EXCEPT !.pc = "done", !.status = status, !.body = body]

\* POST /api/guilds/:guildId/publish arrives: auth passes (the token is valid),
\* ensureOwner awaits its first readJSON.
StartRequest(p) ==
  \E tok \in issued, g \in GuildIds :
    /\ Free(p) /\ budget > 0
    /\ auth(tok).pass
    /\ procs' = [procs EXCEPT ![p] = [Idle EXCEPT !.pc = "guilds", !.op = "request",
                                                  !.guild = g, !.tok = tok]]
    /\ step' = [proc |-> p, op |-> "request", guild |-> g, kind |-> "start"]
    /\ budget' = budget - 1
    /\ UNCHANGED <<files, made, delivered>> /\ UNCHANGED concFrame

\* GET /api/bot/guilds/:guildId/publish?consume=0|1 arrives with an API key:
\* botAuth awaits its readJSON.
StartPoll(p) ==
  \E key \in {"k1"}, g \in GuildIds, op \in {"peek", "consume"} :
    /\ Free(p) /\ budget > 0
    /\ key # NoKey
    /\ procs' = [procs EXCEPT ![p] = [Idle EXCEPT !.pc = "bots", !.op = op,
                                                  !.guild = g, !.key = key]]
    /\ step' = [proc |-> p, op |-> op, guild |-> g, kind |-> "start"]
    /\ budget' = budget - 1
    /\ UNCHANGED <<files, made, delivered>> /\ UNCHANGED concFrame

\* ensureOwner: const guilds = await readJSON(guildsFile, [])  (the row exists)
ReadGuilds(p) ==
  /\ procs[p].pc = "guilds" /\ files[guildsFile].present
  /\ procs' = [procs EXCEPT ![p].pc = "bots", ![p].guilds = files[guildsFile].data]
  /\ step' = [proc |-> p, op |-> procs[p].op, guild |-> procs[p].guild, kind |-> "read"]
  /\ UNCHANGED <<files, budget, made, delivered>> /\ UNCHANGED concFrame

\* ensureOwner / botAuth: const bots = await readJSON(botsFile, [])  (the row
\* exists), then the decision of the guard.
ReadBots(p) ==
  LET pr == procs[p]
      bots == files[botsFile].data
      gi == FindIndex(pr.guilds, LAMBDA x : x.guildId = pr.guild)
      bi == IF gi = 0 THEN 0 ELSE FindIndex(bots, LAMBDA x : x.id = pr.guilds[gi].botId)
      ki == FindIndex(bots, LAMBDA b : b.apiKey = pr.key)
      next == IF pr.op = "request"
              THEN IF gi = 0 THEN Finish(pr, 404, [error |-> "guild no registrado"])
                   ELSE IF bi = 0 THEN Finish(pr, 404, [error |-> "bot no encontrado"])
                   ELSE IF ~pr.tok.isAdmin /\ bots[bi].ownerUserId # pr.tok.uid
                        THEN Finish(pr, 403, [error |-> "no eres dueno de este guild"])
                   ELSE [pr EXCEPT !.pc = "select"]
              ELSE IF ki = 0 THEN Finish(pr, 401, [error |-> "invalid api key"])
                   ELSE [pr EXCEPT !.pc = "select"]
  IN  /\ pr.pc = "bots" /\ files[botsFile].present
      /\ procs' = [procs EXCEPT ![p] = next]
      /\ step' = [proc |-> p, op |-> pr.op, guild |-> pr.guild, kind |-> "read"]
      /\ UNCHANGED <<files, budget, made, delivered>> /\ UNCHANGED concFrame

\* What setPublishFlag / consumePublishFlag / peekPublishFlag do between the
\* return of readJSON and their next await (or their return).
AfterRead(pr, all) ==
  IF pr.op = "request"
  THEN [pr EXCEPT !.pc = "write",
                  !.all = SetKey(all, pr.guild,
                                 [requestedAt |-> now, byUser |-> OrNull(pr.tok.username)])]
  ELSE IF pr.op = "consume"
  THEN IF pr.guild \in DOMAIN all
       THEN [pr EXCEPT !.pc = "write", !.all = DelKey(all, pr.guild), !.val = all[pr.guild]]
       ELSE Finish(pr, 200, [pending |-> FALSE])
  ELSE Finish(pr, 200, [pending |-> pr.guild \in DOMAIN all,
                        info |-> GetOr(all, pr.guild, NullObj)])

\* readJSON: SELECT data FROM files WHERE name = publishFile
SelectFlags(p) ==
  LET pr == procs[p]
  IN  /\ pr.pc = "select"
      /\ procs' = [procs EXCEPT ![p] =
                     IF files[publishFile].present
                     THEN AfterRead(pr, files[publishFile].data)
                     ELSE [pr EXCEPT !.pc = "insert"]]
      /\ step' = [proc |-> p, op |-> pr.op, guild |-> pr.guild, kind |-> "read"]
      /\ UNCHANGED <<files, budget, made, delivered>> /\ UNCHANGED concFrame

\* readJSON: INSERT ... ON CONFLICT (name) DO NOTHING; return fallback
InsertFlags(p) ==
  LET pr == procs[p]
  IN  /\ pr.pc = "insert"
      /\ files' = IF files[publishFile].present THEN files
                  ELSE [files EXCEPT ![publishFile] = Doc(EmptyObj)]
      /\ procs' = [procs EXCEPT ![p] = AfterRead(pr, EmptyObj)]
      /\ step' = [proc |-> p, op |-> pr.op, guild |-> pr.guild, kind |-> "materialize"]
      /\ UNCHANGED <<budget, made, delivered>> /\ UNCHANGED concFrame

\* writeJSON: INSERT ... ON CONFLICT (name) DO UPDATE SET data = the handler's
\* copy; then the handler answers.
WriteFlags(p) ==
  LET pr == procs[p]
  IN  /\ pr.pc = "write"
      /\ files' = [files EXCEPT ![publishFile] = Doc(pr.all)]
      /\ procs' = [procs EXCEPT ![p] =
                     IF pr.op = "request"
                     THEN Finish(pr, 200, [ok |-> TRUE, requestedAt |-> now])
                     ELSE Finish(pr, 200, [pending |-> TRUE, info |-> pr.val])]
      /\ made' = IF pr.op = "request" THEN [made EXCEPT ![pr.guild] = @ + 1] ELSE made
      /\ delivered' = IF pr.op = "consume" THEN [delivered EXCEPT ![pr.guild] = @ + 1]
                      ELSE delivered
      /\ step' = [proc |-> p, op |-> pr.op, guild |-> pr.guild, kind |-> "write"]
      /\ UNCHANGED budget /\ UNCHANGED concFrame

NextConc ==
  \E p \in Procs :
    \/ StartRequest(p)
    \/ StartPoll(p)
    \/ ReadGuilds(p)
    \/ ReadBots(p)
    \/ SelectFlags(p)
    \/ InsertFlags(p)
    \/ WriteFlags(p)

SpecConc == InitConc /\ [][NextConc]_vars

\* C3: consume-once. Every consume answered pending=true returns a flag that a
\* request stored and no other consume returned: per guild, the consumes
\* answered pending=true never outnumber the flags stored.
C3_ConsumeOnce == \A g \in GuildIds : delivered[g] <= made[g]

\* Once a request(g) has completed, the flag of g is neither cleared nor
\* replaced by a step of a handler for another guild (or of a peek).
C4Step ==
  \A g \in GuildIds :
    (g \in DOMAIN Flags /\ made[g] > 0 /\ procs' # procs
       /\ (step'.guild # g \/ step'.op = "peek"))
      => (g \in DOMAIN Flags' /\ Flags'[g] = Flags[g])

\* C4: after request(g) completed, g stays pending until a consume(g): no peek
\* and no request or consume for another guild clears or replaces the flag of
\* g, handlers of the table-backed variant running concurrently included.
C4_StaysPending == [][C4Step]_vars

(***************************************************************************)
(* Scenario: owner-scoped routes while ownership and bindings change       *)
(***************************************************************************)
InitGuard ==
  /\ InitServe("guard", MaxReqs)
  /\ files = BaseFiles
  /\ issued = {TokAdmin, TokAlice, TokBob}

NextGuard ==
  \/ ReqPanelRoles
  \/ ReqPanelChannels
  \/ ReqPanelConfigGet
  \/ ReqPanelConfigPut
  \/ ReqPanelPublish
  \/ ReqAdminBotsOwner
  \/ ReqMeClaim
  \/ ReqBotRegister

SpecGuard == InitGuard /\ [][NextGuard]_vars

\* The owner-scoped routes (src/server.js 310-326 and 822-848).
OwnerScoped ==
  {"panel.roles", "panel.channels", "panel.config.get", "panel.config.put", "panel.publish"}

Stored(name) == IF files[name].present THEN files[name].data ELSE <<>>

\* The bots a guild is bound to by the stored documents.
BoundBots(g) ==
  {b \in {Stored(botsFile)[i] : i \in DOMAIN Stored(botsFile)} :
     \E i \in DOMAIN Stored(guildsFile) :
       Stored(guildsFile)[i].guildId = g /\ Stored(guildsFile)[i].botId = b.id}

\* One step of the ownership gate: the caller is judged against the owner of
\* the one bot the guild is bound to before the request.
C6Step ==
  \A g \in GuildIds : \A B \in BoundBots(g) :
    (Served /\ BoundBots(g) = {B} /\ last'.ep \in OwnerScoped /\ last'.guild = g
       /\ last'.tok.kind = "jwt")
      => /\ (~last'.tok.isAdmin /\ last'.tok.uid # B.ownerUserId)
              => /\ last'.status = 403
                 /\ ~last'.ran
                 /\ last'.writes = {}
                 /\ \A d \in DocNames : files[d].present => files'[d] = files[d]
         /\ (last'.tok.isAdmin \/ last'.tok.uid = B.ownerUserId)
              => last'.status = 200 /\ last'.ran

\* C6: for a guild bound to a bot owned by U, each of the five owner-scoped
\* routes answers 403 to a non-admin session of another user without running
\* its handler, and succeeds for a session of U or of an admin.
C6_OwnershipGate == [][C6Step]_vars

\* After the owner of a bot changed, a stranger was refused and nothing more
\* can be asked: the refused request followed a change of ownership.
C6_Witness ==
  /\ scn = "guard"
  /\ last.ep \in OwnerScoped
  /\ last.status = 403
  /\ ~last.tok.isAdmin
  /\ \E B \in BoundBots(last.guild) :
       /\ B.ownerUserId # last.tok.uid
       /\ B.ownerUserId # Null
       /\ B # Bots0[1] /\ B # Bots0[2]

(***************************************************************************)
(* Scenario: an admin reassigns a bot between owner-scoped requests        *)
(***************************************************************************)
InitReassign ==
  /\ InitServe("reassign", MaxChain)
  /\ files = BaseFiles
  /\ issued = {TokAdmin, TokAlice, TokBob}

NextReassign ==
  \/ ReqPanelRoles
  \/ ReqPanelChannels
  \/ ReqPanelConfigGet
  \/ ReqPanelConfigPut
  \/ ReqPanelPublish
  \/ ReqAdminBotsOwner

SpecReassign == InitReassign /\ [][NextReassign]_vars

\* PUT /api/admin/bots/:botId/owner answered 200: bot b now belongs to v.
IsReassign(e, b, v) ==
  /\ e.ep = "admin.bots.owner"
  /\ e.status = 200
  /\ e.arg.id = b
  /\ e.body.bot.ownerUserId = v

IsOwnerScoped(e, g, uid) == e.ep \in OwnerScoped /\ e.guild = g /\ e.tok.uid = uid

C8Step ==
  \A g \in GuildIds : \A B \in BoundBots(g) : \A v \in {"u1", "u2"} :
    (Served /\ IsReassign(last, B.id, v) /\ last'.ep \in OwnerScoped /\ last'.guild = g
       /\ last'.tok.kind = "jwt")
      => /\ last'.tok.uid = v => last'.status = 200
         /\ (last'.tok.uid # v /\ ~last'.tok.isAdmin) => last'.status = 403

\* C8: the guard judges each request by the documents of that moment: right
\* after an admin moved bot B from U to V, an owner-scoped request on a guild
\* bound to B is refused (403) for non-admin U and succeeds for V, whatever was
\* decided for them before.
C8_PerRequest == [][C8Step]_vars

\* U was let in, the admin moved the bot to V, then U was refused and V let in.
C8_Witness ==
  \E g \in GuildIds : \E u \in {"u1", "u2"} : \E v \in {"u1", "u2"} \ {u} :
    /\ IsOwnerScoped(log[1], g, u) /\ log[1].status = 200
    /\ \E B \in BoundBots(g) : IsReassign(log[2], B.id, v)
    /\ IsOwnerScoped(log[3], g, u) /\ log[3].status = 403
    /\ IsOwnerScoped(last, g, v) /\ last.status = 200

(***************************************************************************)
(* Scenario: the admin routes, asked by an admin and by a plain user       *)
(***************************************************************************)
InitAdmin ==
  /\ InitServe("admin", MaxReqs)
  /\ files = BaseFiles
  /\ issued = {TokAdmin, TokAlice}

NextAdmin ==
  \/ ReqAdminUsersList
  \/ ReqAdminUsersCreate
  \/ ReqAdminUsersUpdate
  \/ ReqAdminUsersDelete
  \/ ReqAdminBotsList
  \/ ReqAdminBotsCreate
  \/ ReqAdminBotsOwner
  \/ ReqAdminBotsSecret
  \/ ReqAdminBotsDelete
  \/ ReqAdminTables
  \/ ReqAdminExport
  \/ ReqAdminImport
  \/ ReqAdminGuildsDelete
  \/ ReqMeBots

SpecAdmin == InitAdmin /\ [][NextAdmin]_vars

\* No bot of a list in a response body carries a token.
NoTokenIn(bots) == \A i \in DOMAIN bots : "token" \notin DOMAIN bots[i]

\* C7: safe view. No response of any route, in either variant, that carries
\* bot credentials (a list under bots, one under bot, or the body itself)
\* contains a token field.
C7_SafeView ==
  last.status = 200
    => /\ "token" \notin DOMAIN last.body
       /\ "bot" \in DOMAIN last.body => "token" \notin DOMAIN last.body.bot
       /\ "bots" \in DOMAIN last.body => NoTokenIn(last.body.bots)

\* The admin routes each variant has.
AdminRoutes ==
  {"admin.users.list", "admin.users.create", "admin.users.update", "admin.users.delete",
   "admin.bots.list", "admin.bots.create", "admin.bots.owner", "admin.bots.secret",
   "admin.export"}
    \cup (IF backend = "table" THEN TableOnly ELSE {})

C9Step ==
  (Served /\ last'.ep \in AdminRoutes /\ last'.tok.kind = "jwt" /\ ~last'.tok.isAdmin)
    => /\ last'.status = 403
       /\ ~last'.ran
       /\ files' = files
       /\ last'.reads = {} /\ last'.mats = {} /\ last'.writes = {}

\* C9: every admin route asked with a valid session that is not an admin's is
\* answered 403, its handler does not run, and every document stays as it was.
C9_AdminOnly == [][C9Step]_vars

\* A plain user was refused on a table-only admin route after an admin's
\* request had changed the documents.
C9_Witness ==
  /\ scn = "admin"
  /\ last.ep = "admin.import"
  /\ last.tok = TokAlice
  /\ last.status = 403
  /\ files # BaseFiles

(***************************************************************************)
(* Scenario: every route, asked with every kind of credential              *)
(***************************************************************************)
InitAll ==
  /\ InitServe("all", MaxProbe)
  /\ files \in {FreshFiles, BaseFiles}
  /\ issued = {TokAdmin, TokAlice}

NextAll ==
  \/ ReqAdminUsersList
  \/ ReqAdminUsersCreate
  \/ ReqAdminUsersUpdate
  \/ ReqAdminUsersDelete
  \/ ReqAdminBotsList
  \/ ReqAdminBotsCreate
  \/ ReqAdminBotsOwner
  \/ ReqAdminBotsSecret
  \/ ReqAdminBotsDelete
  \/ ReqAdminTables
  \/ ReqAdminExport
  \/ ReqAdminImport
  \/ ReqAdminGuildsDelete
  \/ ReqMeBots
  \/ ReqMeGuilds
  \/ ReqMeClaim
  \/ ReqBotRegister
  \/ ReqBotRoles
  \/ ReqBotChannels
  \/ ReqBotConfig
  \/ ReqBotPublish
  \/ ReqPanelRoles
  \/ ReqPanelChannels
  \/ ReqPanelConfigGet
  \/ ReqPanelConfigPut
  \/ ReqPanelPublish

SpecAll == InitAll /\ [][NextAll]_vars

BotRoutes == {"bot.register", "bot.roles", "bot.channels", "bot.config", "bot.publish"}

\* A request turned away by auth, ensureAdmin, ensureOwner or botAuth.
Rejected(e) == e.status \in {401, 403} /\ ~e.ran

\* C10 as stated: a request rejected as Unauthenticated or Forbidden is
\* rejected before any document is read, created by default materialization,
\* or written.
C10_BeforeAnyAccess ==
  Rejected(last) => last.reads = {} /\ last.mats = {} /\ last.writes = {}

\* What a rejected request may have read, by the gate that rejected it.
MayRead(e) ==
  IF e.ep \in BotRoutes /\ e.key # NoKey THEN {botsFile}
  ELSE IF e.ep \in OwnerScoped /\ e.tok.kind = "jwt" THEN {guildsFile, botsFile}
  ELSE {}

C10Step ==
  (Served /\ Rejected(last'))
    => /\ last'.writes = {}
       /\ last'.reads = MayRead(last')
       /\ last'.mats = {d \in last'.reads : ~files[d].present}
       /\ \A d \in DocNames :
            files'[d] = IF d \in last'.mats THEN Doc(<<>>) ELSE files[d]

\* C10, amended: a rejected request runs no handler and calls no writeJSON. A
\* missing or invalid session token, a missing API key and a non-admin on an
\* admin route are rejected before any document is read; an unknown API key is
\* rejected after botAuth read the bots document, a non-owner after
\* ensureOwner read the guilds and bots documents, and a document so read that
\* did not exist is created with its default.
C10_RejectedAccess == [][C10Step]_vars

\* An unknown API key was refused on a store with no bots document: the read
\* of botAuth created it.
C10_Witness ==
  /\ scn = "all"
  /\ last.ep \in BotRoutes
  /\ last.status = 401
  /\ last.key = "bogus"
  /\ last.mats = {botsFile}
  /\ files[botsFile] = Doc(<<>>)

(***************************************************************************)
(* Scenario: the routes that validate their input                          *)
(***************************************************************************)
InitInput ==
  /\ InitServe("input", MaxProbe)
  /\ files \in {FreshFiles, BaseFiles}
  /\ issued = {TokAdmin, TokAlice}

NextInput ==
  \/ ReqAdminUsersCreate
  \/ ReqAdminBotsCreate
  \/ ReqMeClaim
  \/ ReqBotRegister
  \/ ReqBotRoles
  \/ ReqBotChannels
  \/ ReqLogin
  \/ ReqLoginUser

SpecInput == InitInput /\ [][NextInput]_vars

\* What a read of document d returns: an absent document reads as its default.
Content(F, d) ==
  IF F[d].present THEN F[d].data
  ELSE IF d \in {usersFile, botsFile, guildsFile} THEN <<>> ELSE EmptyObj

C11Step ==
  (Served /\ last'.status = 400)
    => /\ last'.writes = {}
       /\ \A d \in DocNames : Content(files', d) = Content(files, d)

\* C11: a request answered 400 (user create without username or password or
\* with a taken username, bot create without name, claim without botId or
\* guildId, register without guildId, roles or channels push without an array;
\* the two logins too) leaves the content of every document as it was.
C11_InvalidInputNoChange == [][C11Step]_vars

\* A user create with a taken username was answered 400 after an earlier
\* request had changed the documents.
C11_Witness ==
  /\ scn = "input"
  /\ last.ep = "admin.users.create"
  /\ last.status = 400
  /\ last.body.error = "usuario ya existe"
  /\ last.reads = {usersFile}
  /\ \E d \in DocNames : files[d] # BaseFiles[d] /\ files[d] # FreshFiles[d]

(***************************************************************************)
(* Scenario: the process restarts (seedAdmin) between user administration  *)
(***************************************************************************)
\* No document exists: the first start ever.
NoFiles == [d \in DocNames |-> Absent]

InitSeed ==
  /\ InitServe("seed", MaxReqs)
  /\ files \in {NoFiles, BaseFiles}
  /\ issued = {TokAdmin}

NextSeed ==
  \/ Seed
  \/ ReqAdminUsersCreate
  \/ ReqAdminUsersUpdate
  \/ ReqAdminUsersDelete

SpecSeed == InitSeed /\ [][NextSeed]_vars

\* How many stored users carry the configured admin username.
AdminCount(F) ==
  Cardinality({i \in DOMAIN Content(F, usersFile) :
                 Content(F, usersFile)[i].username = adminUser})

C12Step ==
  (Served /\ last'.ep = "seed")
    => /\ AdminCount(files') = (IF AdminCount(files) = 0 THEN 1 ELSE AdminCount(files))
       /\ AdminCount(files) >= 1
            => last'.writes = {} /\ Content(files', usersFile) = Content(files, usersFile)
       /\ last.ep = "seed"
            => /\ last'.writes = {}
               /\ Content(files', usersFile) = Content(files, usersFile)
               /\ AdminCount(files) <= 1 => AdminCount(files') = 1
       /\ \A d \in DocNames \ {usersFile} : files'[d] = files[d]

InitBoot ==
  /\ scn = "boot"
  /\ backend = "table"
  /\ files \in {NoFiles, [NoFiles EXCEPT ![usersFile] = Doc(<<>>)]}
  /\ issued = {}
  /\ now = 0
  /\ nextUuid = 0
  /\ last = NoRequest
  /\ log = <<NoRequest, NoRequest, NoRequest>>
  /\ budget = MaxReqs
  /\ procs = <<[pc |-> "select", users |-> <<>>]>>
  /\ step = NoStep
  /\ made = [g \in GuildIds |-> 0]
  /\ delivered = [g \in GuildIds |-> 0]
  /\ env \in {NoEnv, SetEnv}
  /\ disk = NoDisk
  /\ rows = NoRows
  /\ faults = NoFaults
  /\ sdk = NoSdk

bootFrame ==
  <<backend, issued, now, nextUuid, last, log, scn, budget, step, made, delivered, env,
    disk, rows, faults, sdk>>

\* What seedAdmin does once readJSON returned the users.
SeedAfterRead(users) ==
  IF \E i \in 1..Len(users) : users[i].username = adminUser
  THEN [pc |-> "done", users |-> users]
  ELSE [pc |-> "write",
        users |-> Append(users, [id |-> "admin", username |-> adminUser,
                                 passHash |-> hashSync(adminPass), isAdmin |-> TRUE])]

\* readJSON: SELECT data FROM files WHERE name = usersFile
SeedSelect ==
  /\ procs[1].pc = "select"
  /\ procs' = <<IF files[usersFile].present THEN SeedAfterRead(files[usersFile].data)
                ELSE [pc |-> "insert", users |-> <<>>]>>
  /\ UNCHANGED files /\ UNCHANGED bootFrame

\* readJSON: INSERT ... ON CONFLICT (name) DO NOTHING; return fallback
SeedInsert ==
  /\ procs[1].pc = "insert"
  /\ files' = IF files[usersFile].present THEN files
              ELSE [files EXCEPT ![usersFile] = Doc(<<>>)]
  /\ procs' = <<SeedAfterRead(<<>>)>>
  /\ UNCHANGED bootFrame

\* writeJSON(usersFile, users): seeding completes.
SeedWrite ==
  /\ procs[1].pc = "write"
  /\ files' = [files EXCEPT ![usersFile] = Doc(procs[1].users)]
  /\ procs' = <<[procs[1] EXCEPT !.pc = "done"]>>
  /\ UNCHANGED bootFrame

NextBoot ==
  \/ SeedSelect
  \/ SeedInsert
  \/ SeedWrite
  \/ ReqLogin
  \/ ReqLoginUser
  \/ ReqAdminUsersList
  \/ ReqAdminUsersCreate

SpecBoot == InitBoot /\ [][NextBoot]_vars

\* C13: a request handled before seeding completes fails closed: a login is
\* refused (the code answers a refused login 400) and hands out no session
\* token, and no other request is let in.
C13_FailsClosed ==
  (procs[1].pc # "done" /\ last.ep # "none")
    => /\ last.status \in {400, 401}
       /\ "token" \notin DOMAIN last.body

(***************************************************************************)
(* Scenario: guild bindings upserted by bot registrations and user claims  *)
(***************************************************************************)
InitBind ==
  /\ InitServe("bind", MaxReqs)
  /\ files \in {BaseFiles, [BaseFiles EXCEPT ![guildsFile] = Absent]}
  /\ issued = {TokAdmin, TokAlice}

NextBind == ReqBotRegister \/ ReqMeClaim \/ Tick

SpecBind == InitBind /\ [][NextBind]_vars

\* The bindings a document set F holds for guild g.
Bindings(F, g) ==
  {i \in DOMAIN Content(F, guildsFile) : Content(F, guildsFile)[i].guildId = g}

BoundIds(F) ==
  {Content(F, guildsFile)[i].guildId : i \in DOMAIN Content(F, guildsFile)}

\* The one binding of g (when there is exactly one).
Binding(F, g) == Content(F, guildsFile)[CHOOSE i \in Bindings(F, g) : TRUE]

OnePerGuild(F) == \A g \in BoundIds(F) : Cardinality(Bindings(F, g)) = 1

\* A register or claim that was answered 200.
IsUpsert(e) == e.ep \in {"bot.register", "me.claim"} /\ e.status = 200

C14Step ==
  Served
    => /\ OnePerGuild(files) => OnePerGuild(files')
       /\ IsUpsert(last')
            => /\ BoundIds(files') = BoundIds(files) \cup {last'.arg.body.guildId}
               /\ Cardinality(Bindings(files', last'.arg.body.guildId)) = 1
               /\ \A g \in BoundIds(files) :
                    Cardinality(Bindings(files', g)) = Cardinality(Bindings(files, g))
               /\ last'.arg.body.guildId \in BoundIds(files)
                    => Binding(files', last'.arg.body.guildId).lastSeen
                         >= Binding(files, last'.arg.body.guildId).lastSeen
       /\ ~IsUpsert(last') => Content(files', guildsFile) = Content(files, guildsFile)

\* C14: after any sequence of bot-register and user-claim requests served one
\* at a time, the guilds document holds exactly one binding per guildId that
\* was registered or claimed (and the ones it started with); a repeated
\* register of the same guild keeps one binding, with lastSeen not earlier.
C14_OneBindingPerGuild == OnePerGuild(files) /\ [][C14Step]_vars

\* The same bot registered the same new guild twice, the clock having moved in
\* between: one binding, with the later lastSeen.
C14_Witness ==
  /\ scn = "bind"
  /\ budget = MaxReqs - 2
  /\ last.ep = "bot.register" /\ last.status = 200 /\ last.arg.body.guildId = "g3"
  /\ Cardinality(Bindings(files, "g3")) = 1
  /\ Binding(files, "g3").lastSeen = MaxNow
  /\ last.reads = {botsFile, guildsFile}
  /\ Len(Content(files, guildsFile)) = 3

\* The bot a successful upsert binds the guild to.
UpsertBot(e) ==
  IF e.ep = "me.claim" THEN e.arg.body.botId
  ELSE LET bots == Content(files, botsFile)
       IN  bots[CHOOSE i \in DOMAIN bots : bots[i].apiKey = e.key].id

\* The name an upsert supplies (register: guildName; claim: name), if any.
NameKey(e) == IF e.ep = "me.claim" THEN "name" ELSE "guildName"

C15Step ==
  (Served /\ IsUpsert(last') /\ last'.arg.body.guildId \in BoundIds(files))
    => LET g == last'.arg.body.guildId
           body == last'.arg.body
           old == Binding(files, g)
           new == Binding(files', g)
       IN  /\ new.botId = UpsertBot(last')
           /\ new.lastSeen = now
           /\ new.name = (IF Falsy(body, NameKey(last')) THEN old.name
                          ELSE body[NameKey(last')])
           /\ new.icon = (IF Falsy(body, "icon") THEN old.icon ELSE body.icon)
           /\ new.guildId = g

\* C15: on the register path and on the claim path, an upsert of an existing
\* binding that omits name or icon keeps the stored one, sets botId to the bot
\* of the request and refreshes lastSeen; one that supplies them overwrites.
C15_UpsertFrame == [][C15Step]_vars

\* Guild g2 (bot b2, name "Two", icon "i2") was claimed for b1 without name or
\* icon after the clock moved: name and icon kept, botId and lastSeen new.
C15_Witness ==
  /\ scn = "bind"
  /\ last.ep = "me.claim" /\ last.status = 200
  /\ last.arg.body = [botId |-> "b1", guildId |-> "g2"]
  /\ Binding(files, "g2") =
       [guildId |-> "g2", botId |-> "b1", name |-> "Two", icon |-> "i2", lastSeen |-> MaxNow]

(***************************************************************************)
(* Scenario: configurations read by the bot and the panel                  *)
(***************************************************************************)
InitConfig ==
  /\ InitServe("config", MaxReqs)
  /\ files \in {BaseFiles, [BaseFiles EXCEPT ![cfgFile] = Doc(EmptyObj)]}
  /\ issued = {TokAdmin, TokAlice}

NextConfig == ReqBotConfig \/ ReqPanelConfigGet \/ ReqPanelConfigPut

SpecConfig == InitConfig /\ [][NextConfig]_vars

\* A config read that was answered 200.
IsConfigRead(e) == e.ep \in {"bot.config", "panel.config.get"} /\ e.status = 200

C16Step ==
  (Served /\ IsConfigRead(last') /\ last'.guild \notin DOMAIN Content(files, cfgFile))
    => /\ last'.body = defaultConfig
       /\ last'.guild \notin DOMAIN Content(files', cfgFile)
       /\ Content(files', cfgFile) = Content(files, cfgFile)
       /\ last'.writes = {}
       /\ \A d \in DocNames \ {cfgFile} : files'[d] = files[d]

\* C16: reading the configuration of a guild that has none stored, as the bot
\* or as the panel, answers the fixed default and leaves the configs document
\* without an entry for that guild, however often it is read.
C16_DefaultNotPersisted == [][C16Step]_vars

\* Guild g2 was read by the bot and then by the panel with nothing stored for
\* it: the default both times, and still no entry in the document the first
\* read created.
C16_Witness ==
  /\ scn = "config"
  /\ log[3].ep = "bot.config" /\ log[3].guild = "g2" /\ log[3].body = defaultConfig
  /\ log[3].status = 200
  /\ last.ep = "panel.config.get" /\ last.guild = "g2" /\ last.status = 200
  /\ last.body = defaultConfig
  /\ files[cfgFile].present
  /\ "g2" \notin DOMAIN files[cfgFile].data

(***************************************************************************)
(* The document store at the level of its text: JSON values, their         *)
(* serialization, and readJSON / writeJSON of both variants                *)
(***************************************************************************)
\* JSON values, tagged by kind.  Object members keep their insertion order.
JStr(x) == [str |-> x]
JNum(n) == [num |-> n]
JBool(b) == [bool |-> b]
JArr(items) == [arr |-> items]
JObj(members) == [obj |-> members]
Member(k, v) == [k |-> k, v |-> v]

IsNull(v) == "null" \in DOMAIN v
IsArr(v) == "arr" \in DOMAIN v
IsObj(v) == "obj" \in DOMAIN v

\* Numbers that occur in documents.
Nums == 0..2

\* One lexical token of a JSON text: punctuation, literal, number, quoted
\* string or whitespace.
Tok(k, v) == [k |-> k, v |-> v]

\* Line break and indentation of JSON.stringify(v, null, 2).
indent(style, level) ==
  IF style = "pretty" THEN <<Tok("ws", "\n")>> \o [i \in 1..level |-> Tok("ws", "  ")]
  ELSE <<>>

\* What follows a comma and a colon: nothing in JSON.stringify(v), a blank in
\* the text a jsonb column is sent back as; a blank after the colon with indent 2.
afterComma(style) == IF style = "pg" THEN <<Tok("ws", " ")>> ELSE <<>>
afterColon(style) == IF style \in {"pg", "pretty"} THEN <<Tok("ws", " ")>> ELSE <<>>

RECURSIVE stringify(_, _, _)
RECURSIVE joinItems(_, _, _)
RECURSIVE joinMembers(_, _, _)

\* JSON.stringify: style "pretty" is (val, null, 2), "compact" is (val), "pg"
\* is the output form of a jsonb value.
stringify(v, style, level) ==
  CASE IsNull(v) -> <<Tok("lit", "null")>>
    [] "bool" \in DOMAIN v -> <<Tok("lit", IF v.bool THEN "true" ELSE "false")>>
    [] "num" \in DOMAIN v -> <<Tok("num", ToString(v.num))>>
    [] "str" \in DOMAIN v -> <<Tok("str", v.str)>>
    [] IsArr(v) ->
         IF Len(v.arr) = 0 THEN <<Tok("p", "["), Tok("p", "]")>>
         ELSE <<Tok("p", "[")>> \o joinItems(v.arr, style, level + 1)
                \o indent(style, level) \o <<Tok("p", "]")>>
    [] IsObj(v) ->
         IF Len(v.obj) = 0 THEN <<Tok("p", "{"), Tok("p", "}")>>
         ELSE <<Tok("p", "{")>> \o joinMembers(v.obj, style, level + 1)
                \o indent(style, level) \o <<Tok("p", "}")>>

joinItems(items, style, level) ==
  IF Len(items) = 0 THEN <<>>
  ELSE indent(style, level) \o stringify(Head(items), style, level)
         \o (IF Len(items) > 1 THEN <<Tok("p", ",")>> \o afterComma(style) ELSE <<>>)
         \o joinItems(Tail(items), style, level)

joinMembers(members, style, level) ==
  IF Len(members) = 0 THEN <<>>
  ELSE indent(style, level) \o <<Tok("str", Head(members).k), Tok("p", ":")>>
         \o afterColon(style) \o stringify(Head(members).v, style, level)
         \o (IF Len(members) > 1 THEN <<Tok("p", ",")>> \o afterComma(style) ELSE <<>>)
         \o joinMembers(Tail(members), style, level)

\* String.prototype.trim on the front: the text from its first token that is
\* not whitespace.
skipWs(t) ==
  LET I == {i \in 1..Len(t) : t[i].k # "ws"}
  IN  IF I = {} THEN <<>>
      ELSE SubSeq(t, CHOOSE i \in I : \A j \in I : i <= j, Len(t))

SyntaxError == [ok |-> FALSE, val |-> NullObj, rest |-> <<>>]
Parsed(v, rest) == [ok |-> TRUE, val |-> v, rest |-> rest]

\* obj[k] = v while parsing: a repeated key keeps its place, the later value.
PutMember(members, k, v) ==
  IF \E i \in 1..Len(members) : members[i].k = k
  THEN [i \in 1..Len(members) |-> IF members[i].k = k THEN Member(k, v) ELSE members[i]]
  ELSE Append(members, Member(k, v))

RECURSIVE parseValue(_)
RECURSIVE parseItems(_, _)
RECURSIVE parseMembers(_, _)

parseValue(text) ==
  LET t == skipWs(text)
  IN  IF Len(t) = 0 THEN SyntaxError
      ELSE LET h == Head(t)
               r == Tail(t)
           IN  CASE h.k = "lit" ->
                      Parsed(IF h.v = "null" THEN NullObj ELSE JBool(h.v = "true"), r)
                 [] h.k = "num" -> Parsed(JNum(CHOOSE n \in Nums : ToString(n) = h.v), r)
                 [] h.k = "str" -> Parsed(JStr(h.v), r)
                 [] h = Tok("p", "[") ->
                      LET r1 == skipWs(r)
                      IN  IF Len(r1) > 0 /\ Head(r1) = Tok("p", "]")
                          THEN Parsed(JArr(<<>>), Tail(r1))
                          ELSE parseItems(r, <<>>)
                 [] h = Tok("p", "{") ->
                      LET r1 == skipWs(r)
                      IN  IF Len(r1) > 0 /\ Head(r1) = Tok("p", "}")
                          THEN Parsed(JObj(<<>>), Tail(r1))
                          ELSE parseMembers(r, <<>>)
                 [] OTHER -> SyntaxError

parseItems(text, acc) ==
  LET e == parseValue(text)
      r == skipWs(e.rest)
  IN  IF ~e.ok \/ Len(r) = 0 THEN SyntaxError
      ELSE IF Head(r) = Tok("p", ",") THEN parseItems(Tail(r), Append(acc, e.val))
      ELSE IF Head(r) = Tok("p", "]") THEN Parsed(JArr(Append(acc, e.val)), Tail(r))
      ELSE SyntaxError

parseMembers(text, acc) ==
  LET t == skipWs(text)
  IN  IF Len(t) = 0 \/ Head(t).k # "str" THEN SyntaxError
      ELSE LET c == skipWs(Tail(t))
           IN  IF Len(c) = 0 \/ Head(c) # Tok("p", ":") THEN SyntaxError
               ELSE LET e == parseValue(Tail(c))
                        r == skipWs(e.rest)
                        m == PutMember(acc, Head(t).v, e.val)
                    IN  IF ~e.ok \/ Len(r) = 0 THEN SyntaxError
                        ELSE IF Head(r) = Tok("p", ",") THEN parseMembers(Tail(r), m)
                        ELSE IF Head(r) = Tok("p", "}") THEN Parsed(JObj(m), Tail(r))
                        ELSE SyntaxError

\* JSON.parse: one value and nothing but whitespace after it, or a SyntaxError.
JSON_parse(text) ==
  LET e == parseValue(text)
  IN  IF e.ok /\ Len(skipWs(e.rest)) = 0 THEN e ELSE SyntaxError

\* The order a jsonb value keeps its object keys in: shorter first, then by bytes.
JsonbKeyOrder == <<"a", "b", "id">>
KeyRank(k) == CHOOSE i \in 1..Len(JsonbKeyOrder) : JsonbKeyOrder[i] = k

RECURSIVE jsonbValue(_)
\* A value as a jsonb column holds it: object keys sorted, at every depth.
jsonbValue(v) ==
  IF IsArr(v) THEN JArr([i \in 1..Len(v.arr) |-> jsonbValue(v.arr[i])])
  ELSE IF IsObj(v)
  THEN LET m == v.obj
           Pos(i) == Cardinality({j \in 1..Len(m) : KeyRank(m[j].k) <= KeyRank(m[i].k)})
       IN  JObj([p \in 1..Len(m) |->
                  LET i == CHOOSE i \in 1..Len(m) : Pos(i) = p
                  IN  Member(m[i].k, jsonbValue(m[i].v))])
  ELSE v

\* $2::jsonb applied to a text parameter.
jsonb(text) == jsonbValue(JSON_parse(text).val)

RECURSIVE DeepEqual(_, _)
\* Deep equality of two JSON values: arrays by position, objects by key.
DeepEqual(x, y) ==
  IF IsArr(x) /\ IsArr(y)
  THEN /\ Len(x.arr) = Len(y.arr)
       /\ \A i \in 1..Len(x.arr) : DeepEqual(x.arr[i], y.arr[i])
  ELSE IF IsObj(x) /\ IsObj(y)
  THEN /\ Len(x.obj) = Len(y.obj)
       /\ \A i \in 1..Len(x.obj) :
            \E j \in 1..Len(y.obj) :
              x.obj[i].k = y.obj[j].k /\ DeepEqual(x.obj[i].v, y.obj[j].v)
  ELSE x = y

NoFile == [exists |-> FALSE, raw |-> <<>>]
File(text) == [exists |-> TRUE, raw |-> text]
NoRow == [exists |-> FALSE, data |-> NullObj]
Row(v) == [exists |-> TRUE, data |-> v]

\* File-backed writeJSON.
fsWriteJSON(D, name, val) == [D EXCEPT ![name] = File(stringify(val, "pretty", 0))]

\* A read that takes a stored falsy value for a missing one.
fsReadJSON_orFallback(D, name, fallback) ==
  LET D1 == IF D[name].exists THEN D ELSE fsWriteJSON(D, name, fallback)
      p == JSON_parse(D1[name].raw)
      falsy == \/ ~p.ok
               \/ p.val \in {NullObj, JStr(""), JNum(0), JBool(FALSE)}
  IN  [val |-> IF falsy THEN fallback ELSE p.val, store |-> D1]

\* File-backed readJSON.
fsReadJSON(D, name, fallback) ==
  LET D1 == IF D[name].exists THEN D ELSE fsWriteJSON(D, name, fallback)
      raw == D1[name].raw
      p == JSON_parse(raw)
  IN  [val |-> IF Len(skipWs(raw)) = 0 THEN fallback
               ELSE IF p.ok THEN p.val
               ELSE fallback,
       store |-> D1]

\* A write that leaves an existing row alone (ON CONFLICT DO NOTHING).
pgWriteJSON_doNothing(R, name, val) ==
  IF R[name].exists THEN R
  ELSE [R EXCEPT ![name] = Row(jsonb(stringify(val, "compact", 0)))]

\* Table-backed writeJSON: INSERT ... ON CONFLICT (name) DO UPDATE.
pgWriteJSON(R, name, val) == [R EXCEPT ![name] = Row(jsonb(stringify(val, "compact", 0)))]

\* A read that answers with the fallback without inserting it.
pgReadJSON_noInsert(R, name, fallback) ==
  IF R[name].exists
  THEN [val |-> JSON_parse(stringify(R[name].data, "pg", 0)).val, store |-> R]
  ELSE [val |-> fallback, store |-> R]

\* Table-backed readJSON: the row's data as the driver parses it, or INSERT
\* ... ON CONFLICT DO NOTHING of the fallback, which is then returned.
pgReadJSON(R, name, fallback) ==
  IF R[name].exists
  THEN [val |-> JSON_parse(stringify(R[name].data, "pg", 0)).val, store |-> R]
  ELSE [val |-> fallback,
        store |-> [R EXCEPT ![name] = Row(jsonb(stringify(fallback, "compact", 0)))]]

(***************************************************************************)
(* Scenario: the same calls made on the file-backed and on the table-backed*)
(* store, one at a time                                                    *)
(***************************************************************************)
StoreNames == {usersFile, cfgFile}

\* Documents written: falsy values, a string that spells a literal, an array
\* with a null in it, an object whose keys are not in jsonb order.
JsonVals ==
  {NullObj, JStr("null"), JNum(0),
   JArr(<<JNum(1), NullObj>>),
   JObj(<<Member("b", JNum(2)),
          Member("a", JArr(<<JObj(<<Member("id", JStr("x")), Member("a", JBool(TRUE))>>)>>))>>)}

Fallbacks == {JArr(<<>>), JObj(<<>>), NullObj}

StoreCall(ep, name, val, out) ==
  [ep |-> ep, tok |-> NoTok, key |-> NoKey, guild |-> Null,
   arg |-> [name |-> name, val |-> val], status |-> 0, body |-> out, ran |-> TRUE,
   reads |-> {}, mats |-> {}, writes |-> {}, ops |-> <<>>]

storeFrame ==
  UNCHANGED <<backend, files, issued, now, nextUuid, scn, procs, step, made, delivered, env,
              faults, sdk>>

StoreRead ==
  \E name \in StoreNames, fallback \in Fallbacks :
    LET f == fsReadJSON(disk, name, fallback)
        t == pgReadJSON(rows, name, fallback)
    IN  /\ budget > 0
        /\ disk' = f.store
        /\ rows' = t.store
        /\ last' = StoreCall("store.read", name, fallback, [file |-> f.val, table |-> t.val])
        /\ log' = <<log[2], log[3], last>>
        /\ budget' = budget - 1
        /\ storeFrame

StoreWrite ==
  \E name \in StoreNames, val \in JsonVals :
    /\ budget > 0
    /\ disk' = fsWriteJSON(disk, name, val)
    /\ rows' = pgWriteJSON(rows, name, val)
    /\ last' = StoreCall("store.write", name, val, EmptyObj)
    /\ log' = <<log[2], log[3], last>>
    /\ budget' = budget - 1
    /\ storeFrame

InitStore ==
  /\ scn = "store"
  /\ backend = "both"
  /\ files = NoFiles
  /\ issued = {}
  /\ now = 0
  /\ nextUuid = 0
  /\ last = NoRequest
  /\ log = <<NoRequest, NoRequest, NoRequest>>
  /\ budget = MaxStoreOps
  /\ procs = <<>>
  /\ step = NoStep
  /\ made = [g \in GuildIds |-> 0]
  /\ delivered = [g \in GuildIds |-> 0]
  /\ env = NoEnv
  /\ disk = [n \in StoreNames |-> NoFile]
  /\ rows = [n \in StoreNames |-> NoRow]
  /\ faults = NoFaults
  /\ sdk = NoSdk

NextStore == StoreRead \/ StoreWrite

SpecStore == InitStore /\ [][NextStore]_vars

\* The document a file holds, and the document a row holds.
StoredFile(D, name) == JSON_parse(D[name].raw).val
StoredRow(R, name) == R[name].data

IsRead(e) == e.ep = "store.read"
IsWrite(e) == e.ep = "store.write"

C17Step ==
  (Served /\ IsWrite(last) /\ IsRead(last') /\ last'.arg.name = last.arg.name)
    => /\ DeepEqual(last'.body.file, last.arg.val)
       /\ DeepEqual(last'.body.table, last.arg.val)

C17Later ==
  (Served /\ IsWrite(log[3]) /\ IsRead(last) /\ IsRead(last')
     /\ last.arg.name = log[3].arg.name /\ last'.arg.name = log[3].arg.name)
    => /\ DeepEqual(last'.body.file, log[3].arg.val)
       /\ DeepEqual(last'.body.table, log[3].arg.val)

\* C17: in both stores, a read of a name that follows a write of X to it, no
\* other write in between, returns a value deep-equal to X, whatever X and
\* whatever the fallback: never the fallback in its place.
C17_RoundTrip == [][C17Step /\ C17Later]_vars

\* The number 0 was written, then read with [] as fallback: both stores
\* answered 0.
C17_Witness ==
  /\ scn = "store"
  /\ IsWrite(log[3]) /\ log[3].arg.val = JNum(0) /\ log[3].arg.name = usersFile
  /\ IsRead(last) /\ last.arg.name = usersFile /\ last.arg.val = JArr(<<>>)
  /\ last.body.file = JNum(0) /\ last.body.table = JNum(0)

\* Both stores hold nothing under the name.
AbsentIn(D, R, name) == ~D[name].exists /\ ~R[name].exists

C18Step ==
  (Served /\ IsRead(last'))
    => LET n == last'.arg.name
           d == last'.arg.val
       IN  /\ AbsentIn(disk, rows, n)
                => /\ DeepEqual(last'.body.file, d) /\ DeepEqual(last'.body.table, d)
                   /\ disk'[n].exists /\ DeepEqual(StoredFile(disk', n), d)
                   /\ rows'[n].exists /\ DeepEqual(StoredRow(rows', n), d)
           /\ ~AbsentIn(disk, rows, n)
                => /\ DeepEqual(last'.body.file, StoredFile(disk, n))
                   /\ DeepEqual(last'.body.table, StoredRow(rows, n))
                   /\ disk' = disk /\ rows' = rows
           /\ IsNull(last'.body.file) => IsNull(StoredFile(disk', n))
           /\ IsNull(last'.body.table) => IsNull(StoredRow(rows', n))
           /\ \A m \in StoreNames \ {n} : disk'[m] = disk[m] /\ rows'[m] = rows[m]

C19_BackendsAgree ==
  /\ \A n \in StoreNames :
       /\ disk[n].exists = rows[n].exists
       /\ disk[n].exists => /\ JSON_parse(disk[n].raw).ok
                            /\ DeepEqual(StoredFile(disk, n), StoredRow(rows, n))
  /\ IsRead(last) => DeepEqual(last.body.file, last.body.table)

\* The object with unsorted keys was written and read back: the table keeps it
\* with its keys in jsonb order, the file as written; an absent document was
\* read before that and is held by both.
C19_Witness ==
  /\ scn = "store"
  /\ IsRead(log[2]) /\ log[2].arg.name = usersFile /\ log[2].arg.val = NullObj
  /\ IsWrite(log[3]) /\ IsObj(log[3].arg.val) /\ log[3].arg.name = cfgFile
  /\ IsRead(last) /\ last.arg.name = cfgFile
  /\ last.body.table # log[3].arg.val
  /\ last.body.file = log[3].arg.val
  /\ disk[usersFile].raw = <<Tok("lit", "null")>>
  /\ StoredRow(rows, usersFile) = NullObj

(***************************************************************************)
(* Scenario: POST /api/bot/register handlers of the table-backed variant   *)
(* in flight together, each yielding at the awaits of its queries          *)
(***************************************************************************)
RaceKeys == {"k1", "k2", "bogus"}

RaceBodies ==
  {[guildId |-> "g3"], [guildId |-> "g4", guildName |-> "Four"],
   [guildId |-> "g1", guildName |-> "Renamed"], EmptyObj}

\* A handler: where it is, its request, and what it holds.  base is the guilds
\* document its readJSON returned, doc the document it passes to writeJSON,
\* missed the guilds other handlers wrote after its read and before its write.
NoHandler ==
  [pc |-> "idle", key |-> NoKey, req |-> EmptyObj, bot |-> Null, base |-> <<>>,
   doc |-> <<>>, missed |-> {}, status |-> 0, reply |-> EmptyObj]

InitRace ==
  /\ backend = "table"
  /\ files \in {BaseFiles, [BaseFiles EXCEPT ![guildsFile] = Absent]}
  /\ issued = {}
  /\ now = 0
  /\ nextUuid = 0
  /\ last = NoRequest
  /\ log = <<NoRequest, NoRequest, NoRequest>>
  /\ scn = "race"
  /\ budget = MaxStarts
  /\ procs = [p \in Procs |-> NoHandler]
  /\ step = NoStep
  /\ made = [g \in GuildIds |-> 0]
  /\ delivered = [g \in GuildIds |-> 0]
  /\ env = NoEnv
  /\ disk = NoDisk
  /\ rows = NoRows
  /\ faults = NoFaults
  /\ sdk = NoSdk

raceFrame ==
  UNCHANGED <<backend, issued, now, nextUuid, last, log, scn, made, delivered, env, disk, rows,
              faults, sdk>>

Answer(pr, status, reply) == [pr EXCEPT !.pc = "done", !.status = status, !.reply = reply]

\* The request arrives; botAuth answers 401 without a key, or awaits readJSON.
StartRegister(p) ==
  \E key \in RaceKeys \cup {NoKey}, body \in RaceBodies :
    /\ Free(p) /\ budget > 0
    /\ procs' = [procs EXCEPT ![p] =
                   IF key = NoKey
                   THEN Answer([NoHandler EXCEPT !.req = body], 401,
                               [error |-> "x-api-key required"])
                   ELSE [NoHandler EXCEPT !.pc = "bots", !.key = key, !.req = body]]
    /\ step' = [proc |-> p, op |-> "register", guild |-> Null, kind |-> "start"]
    /\ budget' = budget - 1
    /\ UNCHANGED files /\ raceFrame

\* botAuth: bots = await readJSON(botsFile, []) (the row exists); then the
\* handler up to its own await.
RegisterBots(p) ==
  LET pr == procs[p]
      bots == files[botsFile].data
      ki == FindIndex(bots, LAMBDA b : b.apiKey = pr.key)
  IN  /\ pr.pc = "bots" /\ files[botsFile].present
      /\ procs' = [procs EXCEPT ![p] =
                     IF ki = 0 THEN Answer(pr, 401, [error |-> "invalid api key"])
                     ELSE IF Falsy(pr.req, "guildId")
                     THEN Answer(pr, 400, [error |-> "guildId requerido"])
                     ELSE [pr EXCEPT !.pc = "select", !.bot = bots[ki].id]]
      /\ step' = [proc |-> p, op |-> "register", guild |-> Null, kind |-> "read"]
      /\ UNCHANGED <<files, budget>> /\ raceFrame

\* What the handler does with the guilds its readJSON returned, up to the
\* await of writeJSON.
Upserted(pr, guilds) ==
  [pr EXCEPT !.pc = "write", !.base = guilds, !.missed = {},
             !.doc = RegisterUpsert(guilds, pr.bot, pr.req)]

\* readJSON: SELECT data FROM files WHERE name = guildsFile
RegisterSelect(p) ==
  LET pr == procs[p]
  IN  /\ pr.pc = "select"
      /\ procs' = [procs EXCEPT ![p] =
                     IF files[guildsFile].present THEN Upserted(pr, files[guildsFile].data)
                     ELSE [pr EXCEPT !.pc = "insert"]]
      /\ step' = [proc |-> p, op |-> "register", guild |-> pr.req.guildId, kind |-> "read"]
      /\ UNCHANGED <<files, budget>> /\ raceFrame

\* readJSON: INSERT ... ON CONFLICT (name) DO NOTHING; return fallback
RegisterInsert(p) ==
  LET pr == procs[p]
  IN  /\ pr.pc = "insert"
      /\ files' = IF files[guildsFile].present THEN files
                  ELSE [files EXCEPT ![guildsFile] = Doc(<<>>)]
      /\ procs' = [procs EXCEPT ![p] = Upserted(pr, <<>>)]
      /\ step' = [proc |-> p, op |-> "register", guild |-> pr.req.guildId,
                  kind |-> "materialize"]
      /\ UNCHANGED budget /\ raceFrame

\* A write that keeps the bindings of the row the payload does not have.
DoUpdate_merge(stored, payload) ==
  payload \o SelectSeq(stored, LAMBDA x : \A i \in DOMAIN payload : payload[i].guildId # x.guildId)

\* ON CONFLICT (name) DO UPDATE SET data = $2::jsonb
DoUpdate(stored, payload) == payload

\* writeJSON: the row becomes the handler's document; then res.json({ ok: true }).
RegisterWrite(p) ==
  LET pr == procs[p]
  IN  /\ pr.pc = "write"
      /\ files' = [files EXCEPT ![guildsFile] =
                     Doc(IF files[guildsFile].present
                         THEN DoUpdate(files[guildsFile].data, pr.doc) ELSE pr.doc)]
      /\ procs' = [q \in Procs |->
                     IF q = p THEN Answer(pr, 200, [ok |-> TRUE])
                     ELSE IF procs[q].pc = "write"
                     THEN [procs[q] EXCEPT !.missed = @ \cup {pr.req.guildId}]
                     ELSE procs[q]]
      /\ step' = [proc |-> p, op |-> "register", guild |-> pr.req.guildId, kind |-> "write"]
      /\ UNCHANGED budget /\ raceFrame

NextRace ==
  \E p \in Procs :
    \/ StartRegister(p)
    \/ RegisterBots(p)
    \/ RegisterSelect(p)
    \/ RegisterInsert(p)
    \/ RegisterWrite(p)

SpecRace == InitRace /\ [][NextRace]_vars

\* Handler p wrote in this step.
Wrote(p) == procs[p].pc = "write" /\ procs'[p].pc = "done"

C20Step ==
  \A p \in Procs :
    Wrote(p)
      => /\ Content(files', guildsFile) = procs[p].doc
         /\ procs'[p].status = 200
         /\ \A g \in procs[p].missed \ (BoundIds([files EXCEPT ![guildsFile] = Doc(procs[p].base)])
                                          \cup {procs[p].req.guildId}) :
              g \notin BoundIds(files')

\* C20: when table-backed handlers that read-modify-write the guilds document
\* interleave between read and write, the document after the later write is
\* exactly the later writer's document: a guild another handler registered
\* (and answered 200 for) after the later writer's read is no longer bound.
C20_LastWriteWins == [][C20Step]_vars

\* Two registrations of different new guilds overlapped: both answered 200,
\* and the document holds g4 but not g3.
C20_Witness ==
  /\ scn = "race"
  /\ procs[1].pc = "done" /\ procs[1].status = 200 /\ procs[1].req.guildId = "g3"
  /\ procs[2].pc = "done" /\ procs[2].status = 200 /\ procs[2].req.guildId = "g4"
  /\ procs[2].missed = {"g3"}
  /\ "g4" \in BoundIds(files) /\ "g3" \notin BoundIds(files)
  /\ Content(files, guildsFile) = procs[2].doc

(***************************************************************************)
(* Bot-credential creation                                                 *)
(***************************************************************************)
C21Step ==
  (Served /\ last'.ep = "admin.bots.create" /\ last'.status = 200)
    => LET old == Content(files, botsFile)
           new == Content(files', botsFile)
           body == last'.arg.body
           bot == new[Len(new)]
       IN  /\ Len(new) = Len(old) + 1
           /\ \A i \in DOMAIN old : new[i] = old[i]
           /\ \A i \in DOMAIN old : old[i].id # bot.id /\ old[i].apiKey # bot.apiKey
           /\ Has(body, "id") => bot.id # body.id
           /\ Has(body, "apiKey") => bot.apiKey # body.apiKey
           /\ bot.name = body.name
           /\ bot.ownerUserId = Null
           /\ ("token" \in DOMAIN bot) = ~Falsy(body, "token")
           /\ "token" \in DOMAIN bot => bot.token = body.token
           /\ last'.body.bot = safeBotView(bot)
           /\ "token" \notin DOMAIN last'.body.bot
           /\ DOMAIN last'.body.bot = {"id", "name", "apiKey", "ownerUserId", "discordAppId"}

\* C21: creating a bot credential ignores id and apiKey of the body, gives
\* the credential an id and an apiKey no stored credential has, sets
\* ownerUserId to null, stores a token only when the body supplied one, and
\* answers with the credential without its token.
C21_BotCreate == [][C21Step]_vars

\* A credential was created from a body carrying a stored id, a stored apiKey
\* and a token, after another one had been created: the token is stored, the
\* id and key are fresh.
C21_Witness ==
  /\ scn = "admin"
  /\ last.ep = "admin.bots.create" /\ last.status = 200
  /\ last.arg.body = [name |-> "New", token |-> "secret3", id |-> "b1", apiKey |-> "k1"]
  /\ Len(files[botsFile].data) = 4
  /\ files[botsFile].data[4].token = "secret3"
  /\ files[botsFile].data[4].id = uuidv4(3)
  /\ last.body.bot.apiKey = uuidKey(4)

(***************************************************************************)
(* The two logins                                                          *)
(***************************************************************************)
\* The body supplies username and password, and both are the configured ones.
SuppliesAdminCredentials(body) ==
  /\ Has(body, "username") /\ body.username = env.ADMIN_USER
  /\ Has(body, "password") /\ body.password = env.ADMIN_PASS

\* C22: the admin login issues a session token, with isAdmin = true and
\* subject id "admin", exactly when the body supplies a username and a
\* password that both equal the configured ones; every other request is
\* refused and gets no token.
C22_AdminLogin ==
  last.ep = "auth.login"
    => /\ ("token" \in DOMAIN last.body) = SuppliesAdminCredentials(last.arg.body)
       /\ "token" \in DOMAIN last.body
            => /\ last.status = 200
               /\ last.body.token.uid = "admin"
               /\ last.body.token.isAdmin
       /\ "token" \notin DOMAIN last.body => last.status = 400

(***************************************************************************)
(* Scenario: user logins while an admin changes the users                  *)
(***************************************************************************)
InitLogin ==
  /\ InitServe("login", MaxReqs)
  /\ files = BaseFiles
  /\ issued = {TokAdmin}

NextLogin == ReqLoginUser \/ ReqAdminUsersUpdate \/ ReqAdminUsersDelete

SpecLogin == InitLogin /\ [][NextLogin]_vars

\* The password of the body verifies against the hash of user u.
Verifies(body, u) == compareSync(StrOr(body, "password", ""), u.passHash)

\* The users with the username of the body, by position.
Named(users, body) ==
  {i \in DOMAIN users : Has(body, "username") /\ users[i].username = body.username}

InvalidLogin == [error |-> "usuario o contrasena invalidos"]

C23Step ==
  (Served /\ last'.ep = "auth.login_user")
    => LET users == Content(files, usersFile)
           body == last'.arg.body
           N == Named(users, body)
           i == CHOOSE i \in N : \A j \in N : i <= j
           ok == N # {} /\ Verifies(body, users[i])
       IN  /\ ("token" \in DOMAIN last'.body) = ok
           /\ ok => /\ last'.status = 200
                    /\ last'.body.token.uid = users[i].id
                    /\ last'.body.token.isAdmin = users[i].isAdmin
                    /\ last'.body.token.username = users[i].username
           /\ ~ok => last'.status = 400 /\ last'.body = InvalidLogin
           /\ Content(files', usersFile) = users
           /\ last'.writes = {}

\* C23: the user login issues a session token exactly when the first stored
\* user with the supplied username exists and the supplied password verifies
\* against that user's hash; the token carries that user's id and isAdmin as
\* stored when the login is served; an unknown username and a wrong password
\* are answered with the same error.
C23_UserLogin == [][C23Step]_vars

\* Alice logged in with the password an update had just given her; the token
\* carries the admin flag of the same update.
C23_Witness ==
  /\ scn = "login"
  /\ log[3].ep = "admin.users.update"
  /\ last.ep = "auth.login_user"
  /\ last.arg.body = [username |-> "alice", password |-> "pw9"]
  /\ last.status = 200
  /\ last.body.token.uid = "u1" /\ last.body.token.isAdmin

\* The statement as given: a token exactly when some stored user has the
\* supplied username and the supplied password verifies against that user's
\* hash.
C23_AnyMatch ==
  last.ep = "auth.login_user"
    => ("token" \in DOMAIN last.body)
         = (\E i \in Named(Content(files, usersFile), last.arg.body) :
              Verifies(last.arg.body, Content(files, usersFile)[i]))

(***************************************************************************)
(* Scenario: from an admin's setup to the bot's poll, one client after the *)
(* other, each using what the earlier answers gave it                      *)
(***************************************************************************)
Script ==
  <<"admin.users.create", "admin.bots.create", "admin.bots.owner", "auth.login_user",
    "me.claim", "bot.register", "panel.publish", "bot.publish">>

\* The next request of the script is ep.
Turn(ep) == budget > 0 /\ Script[Len(Script) - budget + 1] = ep

\* Alice and the seeded admin; bots and bindings of others (g1 bound to b1).
OthersFiles == [BaseFiles EXCEPT ![usersFile] = Doc(<<Users0[1], Users0[2]>>)]

InitE2E ==
  /\ InitServe("e2e", Len(Script))
  /\ files \in {FreshFiles, OthersFiles}
  /\ issued = {TokAdmin}

BobBody == [username |-> "bob", password |-> "pwb"]

\* What the clients learned from the answers so far.
Bob ==
  Content(files, usersFile)[CHOOSE i \in DOMAIN Content(files, usersFile) :
                              Content(files, usersFile)[i].username = "bob"]
BobBot ==
  Content(files, botsFile)[CHOOSE i \in DOMAIN Content(files, botsFile) :
                             Content(files, botsFile)[i].name = "BobBot"]
BobToks == {t \in issued : t.username = "bob"}

E2ECreateUser ==
  /\ Turn("admin.users.create")
  /\ Serve("admin.users.create", TokAdmin, NoKey, Null, [body |-> BobBody],
           AdminUsersCreate(TokAdmin, BobBody))

E2ECreateBot ==
  /\ Turn("admin.bots.create")
  /\ \E body \in {[name |-> "BobBot"], [name |-> "BobBot", token |-> "secret3"]} :
       Serve("admin.bots.create", TokAdmin, NoKey, Null, [body |-> body],
             AdminBotsCreate(TokAdmin, body))

E2EAssignOwner ==
  /\ Turn("admin.bots.owner")
  /\ LET body == [ownerUserId |-> Bob.id]
     IN  Serve("admin.bots.owner", TokAdmin, NoKey, Null, [id |-> BobBot.id, body |-> body],
               AdminBotsOwner(TokAdmin, BobBot.id, body))

E2ELogin ==
  /\ Turn("auth.login_user")
  /\ Serve("auth.login_user", NoTok, NoKey, Null, [body |-> BobBody], LoginUser(BobBody))

E2EClaim ==
  /\ Turn("me.claim")
  /\ \E tok \in BobToks :
       \E body \in {[botId |-> BobBot.id, guildId |-> "g1"],
                    [botId |-> BobBot.id, guildId |-> "g1", name |-> "Mine"]} :
         Serve("me.claim", tok, NoKey, Null, [body |-> body], MeClaim(tok, body))

E2ERegister ==
  /\ Turn("bot.register")
  /\ \E body \in {[guildId |-> "g1"], [guildId |-> "g1", guildName |-> "One"]} :
       Serve("bot.register", NoTok, BobBot.apiKey, Null, [body |-> body],
             BotRegister(BobBot.apiKey, body))

E2EPublish ==
  /\ Turn("panel.publish")
  /\ \E tok \in BobToks :
       Serve("panel.publish", tok, NoKey, "g1", NoArg, PanelPublish(tok, "g1"))

E2EPoll ==
  /\ Turn("bot.publish")
  /\ \E consume \in BOOLEAN :
       Serve("bot.publish", NoTok, BobBot.apiKey, "g1", [consume |-> consume],
             BotPublish(BobBot.apiKey, "g1", consume))

NextE2E ==
  \/ E2ECreateUser
  \/ E2ECreateBot
  \/ E2EAssignOwner
  \/ E2ELogin
  \/ E2EClaim
  \/ E2ERegister
  \/ E2EPublish
  \/ E2EPoll
  \/ Tick

SpecE2E == InitE2E /\ [][NextE2E]_vars

\* C24: after an admin created user bob, created a bot, made bob its owner,
\* bob logged in and claimed g1 for the bot, the bot registered g1 with its
\* key and bob requested publish for g1, a consume poll for g1 with that key
\* answers pending = true with info.byUser = "bob"; every step before it
\* succeeded.
C24_EndToEnd ==
  /\ last.ep # "none" => last.status = 200 /\ last.ep = Script[Len(Script) - budget]
  /\ (last.ep = "bot.publish" /\ last.arg.consume)
       => /\ last.body.pending
          /\ last.body.info.byUser = "bob"

\* The consume poll at the end of the script was answered, in a store where
\* g1 had been bound to another owner's bot, and the flag is gone.
C24_Witness ==
  /\ scn = "e2e"
  /\ budget = 0
  /\ last.ep = "bot.publish" /\ last.status = 200 /\ last.arg.consume /\ last.body.pending
  /\ last.body.info.byUser = "bob"
  /\ Len(files[botsFile].data) = 3
  /\ "g1" \notin DOMAIN files[publishFile].data

(***************************************************************************)
(* Scenario: references left dangling by deletes and assignments           *)
(***************************************************************************)
\* Guild g2 bound to a bot that is not stored.
DanglingFiles ==
  [BaseFiles EXCEPT ![guildsFile] =
     Doc(<<Guilds0[1], [Guilds0[2] EXCEPT !.botId = "gone"]>>)]

InitDangling ==
  /\ InitServe("dangling", MaxReqs)
  /\ files \in {BaseFiles, DanglingFiles}
  /\ issued = {TokAdmin, TokAlice}

NextDangling ==
  \/ ReqAdminBotsDelete
  \/ ReqAdminUsersDelete
  \/ ReqAdminBotsOwner
  \/ ReqPanelConfigGet
  \/ ReqPanelPublish
  \/ ReqMeClaim

SpecDangling == InitDangling /\ [][NextDangling]_vars

\* Position of the first element of a sequence of records whose field k is v
\* (0: none).
FirstWith(arr, k, v) ==
  LET I == {i \in DOMAIN arr : arr[i][k] = v}
  IN  IF I = {} THEN 0 ELSE CHOOSE i \in I : \A j \in I : i <= j

ErrorOf(e) == IF "error" \in DOMAIN e.body THEN e.body.error ELSE ""

C25Guard ==
  (Served /\ last'.ep \in OwnerScoped /\ last'.tok.kind = "jwt")
    => LET guilds == Content(files, guildsFile)
           bots == Content(files, botsFile)
           gi == FirstWith(guilds, "guildId", last'.guild)
           bi == IF gi = 0 THEN 0 ELSE FirstWith(bots, "id", guilds[gi].botId)
       IN  /\ gi = 0 => last'.status = 404 /\ ErrorOf(last') = "guild no registrado"
           /\ (gi # 0 /\ bi = 0)
                => last'.status = 404 /\ ErrorOf(last') = "bot no encontrado"
           /\ (gi # 0 /\ bi # 0)
                => IF last'.tok.isAdmin \/ bots[bi].ownerUserId = last'.tok.uid
                   THEN last'.status = 200
                   ELSE last'.status = 403

\* Deleting a stored bot or user and assigning an owner are never refused for
\* the references they leave dangling, and touch no other document.
C25Writes ==
  (Served /\ last'.tok.kind = "jwt" /\ last'.tok.isAdmin)
    => /\ (last'.ep = "admin.bots.delete" /\ backend = "table"
             /\ FirstWith(Content(files, botsFile), "id", last'.arg.id) # 0)
            => /\ last'.status = 200
               /\ FirstWith(Content(files', botsFile), "id", last'.arg.id) = 0
               /\ Content(files', guildsFile) = Content(files, guildsFile)
       /\ (last'.ep = "admin.users.delete"
             /\ FirstWith(Content(files, usersFile), "id", last'.arg.id) # 0)
            => /\ last'.status = 200
               /\ Content(files', botsFile) = Content(files, botsFile)
       /\ (last'.ep = "admin.bots.owner"
             /\ FirstWith(Content(files, botsFile), "id", last'.arg.id) # 0)
            => last'.status = 200

\* C25: the owner-or-admin guard answers in a fixed order: no binding for the
\* guild, 404 (guild); a binding whose bot is not stored, 404 (bot), for
\* admins too; only then ownership.  Deleting a bot or a user and assigning
\* an owner are not refused for the references they leave dangling.
C25_GuardOrder == [][C25Guard /\ C25Writes]_vars

\* An admin deleted bot b1, to which g1 stays bound, and was then answered
\* 404 (bot) on g1.
C25_Witness ==
  /\ scn = "dangling"
  /\ backend = "table"
  /\ last.ep \in OwnerScoped /\ last.guild = "g1" /\ last.tok.isAdmin
  /\ last.status = 404 /\ ErrorOf(last) = "bot no encontrado"
  /\ FirstWith(Content(files, guildsFile), "guildId", "g1") # 0
  /\ FirstWith(Content(files, botsFile), "id", "b1") = 0

\* The statement as given, for the one write that names a bot: a claim is
\* never refused because the bot it names is not stored.
C25_NoWriteRejects ==
  (last.ep = "me.claim" /\ last.tok.kind = "jwt"
     /\ ~Falsy(last.arg.body, "botId") /\ ~Falsy(last.arg.body, "guildId")
     /\ FirstWith(Content(files, botsFile), "id", last.arg.body.botId) = 0)
    => last.status # 404

(***************************************************************************)
(* Scenario: the bot routes, with keys that are stored, not stored, or     *)
(* deleted in between                                                      *)
(***************************************************************************)
InitBots ==
  /\ InitServe("bots", MaxProbe)
  /\ files \in {BaseFiles, [BaseFiles EXCEPT ![guildsFile] = Doc(<<Guilds0[1]>>)]}
  /\ issued = {TokAdmin}

NextBots ==
  \/ ReqBotRegister
  \/ ReqBotRoles
  \/ ReqBotChannels
  \/ ReqBotConfig
  \/ ReqBotPublish
  \/ ReqAdminBotsDelete

SpecBots == InitBots /\ [][NextBots]_vars

\* The body of a bot request has what its route asks for.
WellFormed(e) ==
  CASE e.ep = "bot.register" -> ~Falsy(e.arg.body, "guildId")
    [] e.ep = "bot.roles" -> Has(e.arg.body, "roles")
    [] e.ep = "bot.channels" -> Has(e.arg.body, "channels")
    [] OTHER -> TRUE

C26Step ==
  (Served /\ last'.ep \in BotRoutes)
    => LET bots == Content(files, botsFile)
           bi == IF last'.key = NoKey THEN 0 ELSE FirstWith(bots, "apiKey", last'.key)
       IN  /\ bi = 0 => /\ last'.status = 401 /\ ~last'.ran
                        /\ last'.writes = {}
                        /\ \A d \in DocNames : Content(files', d) = Content(files, d)
           /\ bi # 0 => /\ last'.ran
                        /\ last'.status = (IF WellFormed(last') THEN 200 ELSE 400)
           /\ (bi # 0 /\ last'.ep = "bot.register" /\ last'.status = 200)
                => Binding(files', last'.arg.body.guildId).botId = bots[bi].id
           /\ (bi # 0 /\ last'.ep = "bot.roles" /\ last'.status = 200)
                => Content(files', rolesFile)[last'.guild] = last'.arg.body.roles
           /\ (bi # 0 /\ last'.ep = "bot.channels" /\ last'.status = 200)
                => Content(files', channelsFile)[last'.guild] = last'.arg.body.channels

\* C26: a bot route proceeds exactly when the x-api-key header is the apiKey
\* of a credential stored when the request is served, and then acts on the
\* guild the request names, unbound or bound to another bot; register binds
\* the guild to the matched credential; the key of a deleted credential is
\* answered 401.
C26_BotKeyOnly == [][C26Step]_vars

\* Bot b1 pushed roles for g2, which is bound to b2, and they were stored.
C26_Witness ==
  /\ scn = "bots"
  /\ last.ep = "bot.roles" /\ last.key = "k1" /\ last.guild = "g2" /\ last.status = 200
  /\ Bindings(files, "g2") # {}
  /\ Binding(files, "g2").botId = "b2"
  /\ "g2" \in DOMAIN Content(files, rolesFile)
  /\ Content(files, rolesFile)["g2"] = <<"r1">>

\* The key of b1 was refused after b1 had been deleted.
C26_Deleted ==
  /\ scn = "bots"
  /\ last.ep \in BotRoutes /\ last.key = "k1" /\ last.status = 401
  /\ FirstWith(Content(files, botsFile), "apiKey", "k1") = 0

(***************************************************************************)
(* Scenario: roles, channels and configurations pushed, saved and read     *)
(***************************************************************************)
\* Every guild has roles, channels and a configuration stored.
FilledFiles ==
  [BaseFiles EXCEPT
     ![rolesFile] = Doc([g \in GuildIds |-> <<"r0", "r9">>]),
     ![channelsFile] = Doc([g \in GuildIds |-> <<"c0">>]),
     ![cfgFile] = Doc([g \in GuildIds |->
                         [brand |-> [name |-> "Old"], misc |-> [tiendaUrl |-> "old.com"]]])]

InitReplace ==
  /\ InitServe("replace", MaxProbe)
  /\ files \in {BaseFiles, FilledFiles}
  /\ issued = {TokAdmin, TokAlice}

NextReplace ==
  \/ ReqBotRoles
  \/ ReqBotChannels
  \/ ReqPanelConfigPut
  \/ ReqPanelRoles
  \/ ReqPanelChannels
  \/ ReqPanelConfigGet
  \/ ReqBotConfig

SpecReplace == InitReplace /\ [][NextReplace]_vars

\* The document a route of these resources works on.
ResourceOf(ep) ==
  CASE ep \in {"bot.roles", "panel.roles"} -> rolesFile
    [] ep \in {"bot.channels", "panel.channels"} -> channelsFile
    [] OTHER -> cfgFile

\* The value a successful push or save carries.
Pushed(e) ==
  CASE e.ep = "bot.roles" -> e.arg.body.roles
    [] e.ep = "bot.channels" -> e.arg.body.channels
    [] OTHER -> e.arg.body

\* What a successful read answered for the resource.
ReadBack(e) ==
  CASE e.ep = "panel.roles" -> e.body.roles
    [] e.ep = "panel.channels" -> e.body.channels
    [] OTHER -> e.body

IsReplace(e) == e.ep \in {"bot.roles", "bot.channels", "panel.config.put"} /\ e.status = 200

IsResourceRead(e) ==
  e.ep \in {"panel.roles", "panel.channels", "panel.config.get", "bot.config"} /\ e.status = 200

C27Write ==
  (Served /\ IsReplace(last'))
    => LET d == ResourceOf(last'.ep)
       IN  /\ last'.guild \in DOMAIN Content(files', d)
           /\ Content(files', d)[last'.guild] = Pushed(last')
           /\ DOMAIN Content(files', d) = DOMAIN Content(files, d) \cup {last'.guild}
           /\ \A h \in DOMAIN Content(files, d) \ {last'.guild} :
                Content(files', d)[h] = Content(files, d)[h]
           /\ \A o \in DocNames \ {d} : Content(files', o) = Content(files, o)

C27Read ==
  (Served /\ IsReplace(last) /\ IsResourceRead(last')
     /\ ResourceOf(last'.ep) = ResourceOf(last.ep) /\ last'.guild = last.guild)
    => ReadBack(last') = Pushed(last)

\* C27: a successful roles push, channels push or config save of X for guild
\* g stores exactly X for g, keeps the entries of the other guilds and every
\* other document, and the next read of that resource for g answers exactly
\* X: nothing of the previous value or of the default is kept.
C27_WholesaleReplace == [][C27Write /\ C27Read]_vars

\* A configuration with one section was saved over a stored one with two, and
\* the read after it answered the saved one alone.
C27_Witness ==
  /\ scn = "replace"
  /\ last.ep \in {"panel.config.get", "bot.config"} /\ last.guild = "g1" /\ last.status = 200
  /\ last.body = [misc |-> [serverIp |-> "play.net"]]
  /\ "g2" \in DOMAIN Content(files, cfgFile)
  /\ Content(files, cfgFile)["g2"] = [brand |-> [name |-> "Old"], misc |-> [tiendaUrl |-> "old.com"]]

(***************************************************************************)
(* Username uniqueness                                                     *)
(***************************************************************************)
UniqueNames(F) ==
  \A i, j \in DOMAIN Content(F, usersFile) :
    Content(F, usersFile)[i].username = Content(F, usersFile)[j].username => i = j

C28Step ==
  Served
    => /\ (last'.ep = "admin.users.create" /\ last'.tok.kind = "jwt" /\ last'.tok.isAdmin
             /\ ~Falsy(last'.arg.body, "username") /\ ~Falsy(last'.arg.body, "password")
             /\ FirstWith(Content(files, usersFile), "username", last'.arg.body.username) # 0)
            => /\ last'.status = 400 /\ ErrorOf(last') = "usuario ya existe"
               /\ last'.writes = {}
               /\ Content(files', usersFile) = Content(files, usersFile)
       /\ (last'.ep \in {"seed", "admin.users.create", "admin.users.delete"}
             /\ UniqueNames(files))
            => UniqueNames(files')
       /\ (last'.ep = "admin.users.update" /\ last'.tok.kind = "jwt" /\ last'.tok.isAdmin
             /\ FirstWith(Content(files, usersFile), "id", last'.arg.id) # 0)
            => /\ last'.status = 200
               /\ ~Falsy(last'.arg.body, "username")
                    => last'.body.user.username = last'.arg.body.username

\* C28: creating a user whose username a stored user has is refused and
\* leaves the users document as it is, so seed and create keep usernames
\* unique; update takes any username without looking, and so does not.
C28_UniqueAtCreation == [][C28Step]_vars

\* An update renamed alice to bob while bob is stored: two users named bob.
C28_Witness ==
  /\ scn = "seed"
  /\ last.ep = "admin.users.update" /\ last.status = 200
  /\ last.arg.body = [username |-> "bob"]
  /\ ~UniqueNames(files)
  /\ Cardinality({i \in DOMAIN files[usersFile].data :
                    files[usersFile].data[i].username = "bob"}) = 2

(***************************************************************************)
(* Scenario: the caller-scoped views while owners and bots change          *)
(***************************************************************************)
InitViews ==
  /\ InitServe("views", MaxReqs)
  /\ files = BaseFiles
  /\ issued = {TokAdmin, TokAlice, TokBob}

NextViews ==
  \/ ReqMeBots
  \/ ReqMeGuilds
  \/ ReqAdminBotsOwner
  \/ ReqAdminBotsDelete
  \/ ReqMeClaim

SpecViews == InitViews /\ [][NextViews]_vars

ElemsOf(s) == {s[i] : i \in DOMAIN s}

\* The stored bot credentials a session sees: all for an admin, otherwise
\* the ones whose ownerUserId is the session's subject.
BotsOf(F, tok) ==
  {b \in ElemsOf(Content(F, botsFile)) : tok.isAdmin \/ b.ownerUserId = tok.uid}

C29Step ==
  (Served /\ last'.ep \in {"me.bots", "me.guilds"} /\ last'.tok.kind = "jwt")
    => /\ last'.status = 200
       /\ last'.writes = {}
       /\ last'.ep = "me.bots"
            => /\ ElemsOf(last'.body.bots) = {safeBotView(b) : b \in BotsOf(files, last'.tok)}
               /\ Len(last'.body.bots) = Cardinality(BotsOf(files, last'.tok))
       /\ last'.ep = "me.guilds"
            => /\ ElemsOf(last'.body.guilds) =
                    {g \in ElemsOf(Content(files, guildsFile)) :
                       \E b \in BotsOf(files, last'.tok) : b.id = g.botId}
               /\ Len(last'.body.guilds) = Cardinality(ElemsOf(last'.body.guilds))

\* C29: the views return, for a plain session, exactly the bots whose
\* ownerUserId is the caller's subject and exactly the guild bindings bound to
\* those bots; for an admin session, every bot, and every guild binding whose
\* botId is the id of a stored bot.
C29_CallerScopedViews == [][C29Step]_vars

\* As stated: an admin session is returned every stored guild binding.
C29_AdminSeesAllGuilds ==
  [][(Served /\ last'.ep = "me.guilds" /\ last'.tok.kind = "jwt" /\ last'.tok.isAdmin)
       => ElemsOf(last'.body.guilds) = ElemsOf(Content(files, guildsFile))]_vars

\* After bot b1 was deleted an admin asks for the guilds: g1, still stored and
\* bound to b1, is not in the answer, g2 is.
C29_Witness ==
  /\ scn = "views"
  /\ last.ep = "me.guilds" /\ last.tok = TokAdmin /\ last.status = 200
  /\ \E i \in DOMAIN files[guildsFile].data :
       /\ files[guildsFile].data[i].botId = "b1"
       /\ files[guildsFile].data[i] \notin ElemsOf(last.body.guilds)
  /\ \E g \in ElemsOf(last.body.guilds) : g.botId = "b2"

\* A plain session whose bot was assigned to someone else gets an empty list
\* of bots.
C29_Reassigned ==
  /\ scn = "views"
  /\ last.ep = "me.bots" /\ last.tok = TokAlice /\ last.status = 200
  /\ last.body.bots = <<>>
  /\ Content(files, botsFile) # <<>>

(***************************************************************************)
(* Claim-guild                                                             *)
(***************************************************************************)
\* The caller of request e may claim with the bot e names: the bot is stored
\* in F and the caller is an admin or its owner.
MayClaim(F, e) ==
  LET bi == FirstWith(Content(F, botsFile), "id", e.arg.body.botId)
  IN  /\ bi # 0
      /\ e.tok.isAdmin \/ Content(F, botsFile)[bi].ownerUserId = e.tok.uid

C30Step ==
  (Served /\ last'.ep = "me.claim" /\ last'.tok.kind = "jwt"
     /\ ~Falsy(last'.arg.body, "botId") /\ ~Falsy(last'.arg.body, "guildId"))
    => LET body == last'.arg.body
           bi == FirstWith(Content(files, botsFile), "id", body.botId)
       IN  /\ last'.status = 200 <=> MayClaim(files, last')
           /\ last'.status \in {200, 403, 404}
           /\ last'.status = 404 <=> bi = 0
           /\ last'.status = 200
                => /\ Bindings(files', body.guildId) # {}
                   /\ \A i \in Bindings(files', body.guildId) :
                        Content(files', guildsFile)[i].botId = body.botId
                   /\ last'.body.guild.botId = body.botId
                   /\ ensureOwner(Ctx(files'), auth(last'.tok).user, body.guildId).pass
           /\ last'.status \in {403, 404}
                => /\ files'[guildsFile] = files[guildsFile]
                   /\ guildsFile \notin last'.writes

\* C30: a claim naming a bot and a guild succeeds exactly when the bot is
\* stored and the caller is an admin or its owner, whatever the guild is bound
\* to; then the guild is bound to that bot and the caller passes the
\* owner-or-admin guard for it; answered 404 or 403 it leaves the guilds
\* document as it was.
C30_Claim == [][C30Step]_vars

\* The first request: alice claims g2, bound to bob's bot b2, with her bot b1,
\* and g2 is now bound to b1.
C30_Witness ==
  /\ scn = "views" /\ budget = MaxReqs - 1
  /\ last.ep = "me.claim" /\ last.tok = TokAlice /\ last.status = 200
  /\ last.arg.body = [botId |-> "b1", guildId |-> "g2"]
  /\ Guilds0[2].botId = "b2"
  /\ Binding(files, "g2").botId = "b1"
  /\ ensureOwner(Ctx(files), auth(TokAlice).user, "g2").pass

\* Alice is refused a claim with bot b1, hers until it was assigned to bob.
C30_Forbidden ==
  /\ scn = "views"
  /\ last.ep = "me.claim" /\ last.tok = TokAlice /\ last.status = 403
  /\ last.arg.body.botId = "b1"

(***************************************************************************)
(* Scenario: requests served while the storage of one document fails       *)
(***************************************************************************)
InitFault ==
  /\ InitServe("fault", MaxProbe)
  /\ files = BaseFiles
  /\ issued = {TokAdmin, TokAlice}

NextFault ==
  \/ ReqAdminImport
  \/ ReqAdminUsersCreate
  \/ ReqPanelConfigGet
  \/ ReqPanelConfigPut
  \/ ReqBotRegister
  \/ ReqLoginUser

SpecFault == InitFault /\ [][NextFault]_vars

\* The payload keys of import with their documents, in the order of the
\* handler's statements.
ImportOrder ==
  <<[key |-> "users", name |-> usersFile], [key |-> "bots", name |-> botsFile],
    [key |-> "guilds", name |-> guildsFile], [key |-> "roles", name |-> rolesFile],
    [key |-> "channels", name |-> channelsFile], [key |-> "configs", name |-> cfgFile],
    [key |-> "publish_flags", name |-> publishFile]>>

\* The entries of ImportOrder that payload j names.
NamedIn(j) == SelectSeq(ImportOrder, LAMBDA e : Has(j, e.key))

\* Position in NamedIn(j) of the first document whose write fails (0: none).
FirstFailing(j) ==
  LET I == {i \in 1..Len(NamedIn(j)) : NamedIn(j)[i].name \in faults.writes}
  IN  IF I = {} THEN 0 ELSE CHOOSE i \in I : \A k \in I : i <= k

C31Step ==
  (Served /\ last'.ep = "admin.import" /\ backend = "table"
     /\ last'.tok.kind = "jwt" /\ last'.tok.isAdmin)
    => LET j == last'.arg.body
           named == NamedIn(j)
           k == FirstFailing(j)
           done == IF k = 0 THEN Len(named) ELSE k - 1
       IN  /\ last'.status = IF k = 0 THEN 200 ELSE 500
           /\ Len(last'.ops) = IF k = 0 THEN Len(named) ELSE k
           /\ \A i \in 1..Len(last'.ops) :
                last'.ops[i] = StorageOp("write", named[i].name, i # k)
           /\ \A i \in 1..Len(named) :
                files'[named[i].name] = IF i <= done THEN Doc(j[named[i].key])
                                        ELSE files[named[i].name]
           /\ \A d \in DocNames :
                (\A i \in 1..Len(named) : named[i].name # d) => files'[d] = files[d]

\* C31: import writes the documents its payload names, in the order users,
\* bots, guilds, roles, channels, configs, publish flags, and no other; when a
\* write fails the request ends with 500, the documents written before it have
\* the payload's content and the failing one and those after it the old one.
C31_Import == [][C31Step]_vars

\* An import of users, guilds and configs whose guilds write failed: users is
\* replaced, guilds and configs are as before.
C31_Witness ==
  /\ scn = "fault" /\ backend = "table" /\ budget = MaxProbe - 1
  /\ last.ep = "admin.import" /\ last.status = 500
  /\ faults.writes = {guildsFile}
  /\ files[usersFile] = Doc(<<SeedUser>>)
  /\ files[guildsFile] = BaseFiles[guildsFile]
  /\ files[cfgFile] = BaseFiles[cfgFile]
  /\ "configs" \in DOMAIN last.arg.body

(***************************************************************************)
(* Storage failures                                                        *)
(***************************************************************************)
\* The positions of the storage calls of request e that failed.
FailedOps(e) == {i \in 1..Len(e.ops) : ~e.ops[i].ok}

\* A failed storage call is the request's last one and the answer is 500.
EndsInternal(e) ==
  FailedOps(e) # {} => /\ e.status = 500
                       /\ FailedOps(e) = {Len(e.ops)}
                       /\ e.writes \cap {e.ops[i].name : i \in FailedOps(e)} = {}

\* C32: a storage call that fails during a handler is the last one the handler
\* makes (no retry, no default in place of a failed read) and the request
\* is answered 500.
C32_FailureIsInternal == [][Served => EndsInternal(last')]_vars

\* The same for the table-backed variant alone.
C32_TableBacked == [][(Served /\ backend = "table") => EndsInternal(last')]_vars

\* File-backed variant with users.json unreadable: a user creation was answered
\* 200 and the users document now holds the new user alone.
C32_UsersLost ==
  /\ scn = "fault" /\ backend = "file" /\ faults.reads = {usersFile}
  /\ last.ep = "admin.users.create" /\ last.status = 200
  /\ Len(files[usersFile].data) = 1
  /\ files[usersFile].data[1].username = "carol"

(***************************************************************************)
(* Scenario: concurrent requests to the file-backed variant                *)
(*                                                                         *)
(* The handlers of lines 1-391 have no await and no callback of their own: *)
(* express parses the body and then calls the handler, which runs          *)
(* readJSON, the update and writeJSON to the end before the event loop     *)
(* takes the next request.  Requests that have arrived wait in `procs`;    *)
(* the loop picks them in any order.                                       *)
(***************************************************************************)
SyncRequests ==
  {[kind |-> "register", key |-> "k1", body |-> [guildId |-> "g3"]],
   [kind |-> "register", key |-> "k2", body |-> [guildId |-> "g4", guildName |-> "Four"]],
   [kind |-> "register", key |-> "k2", body |-> [guildId |-> "g1", guildName |-> "Renamed"]],
   [kind |-> "register", key |-> "bogus", body |-> [guildId |-> "g3"]],
   [kind |-> "publish", tok |-> TokAlice, guild |-> "g1"],
   [kind |-> "publish", tok |-> TokAdmin, guild |-> "g2"],
   [kind |-> "poll", key |-> "k1", guild |-> "g1", consume |-> TRUE],
   [kind |-> "poll", key |-> "k1", guild |-> "g1", consume |-> FALSE]}

NoCall == [pc |-> "idle", req |-> [kind |-> "none"], status |-> 0, body |-> EmptyObj]

\* The documents every request of the scenario starts from.
SyncFiles == [BaseFiles EXCEPT ![publishFile] = Doc(EmptyObj)]

InitSync ==
  /\ scn = "sync"
  /\ backend = "file"
  /\ files = SyncFiles
  /\ issued = {TokAdmin, TokAlice}
  /\ now = 0
  /\ nextUuid = 0
  /\ last = NoRequest
  /\ log = <<NoRequest, NoRequest, NoRequest>>
  /\ budget = NumProcs
  /\ procs = [p \in Procs |-> NoCall]
  /\ step = NoStep
  /\ made = [g \in GuildIds |-> 0]
  /\ delivered = [g \in GuildIds |-> 0]
  /\ env = NoEnv
  /\ disk = NoDisk
  /\ rows = NoRows
  /\ faults = NoFaults
  /\ sdk = NoSdk

syncFrame ==
  UNCHANGED <<backend, issued, now, nextUuid, last, log, scn, step, made, delivered, env,
              disk, rows, faults, sdk>>

\* The handler of request r run on the documents F.
HandleOn(F, r) ==
  CASE r.kind = "register" -> BotRegisterOn(Ctx(F), r.key, r.body)
    [] r.kind = "publish" -> PanelPublishOn(Ctx(F), r.tok, r.guild)
    [] OTHER -> BotPublishOn(Ctx(F), r.key, r.guild, r.consume)

\* A handler that works on the documents as they were when the requests came.
Handled_stale(r) == HandleOn(SyncFiles, r)

\* The handler reads the documents when it runs.
Handled(r) == HandleOn(files, r)

\* A request arrives and waits for the event loop.
Arrive(p) ==
  \E r \in SyncRequests :
    /\ procs[p].pc = "idle" /\ budget > 0
    /\ procs' = [procs EXCEPT ![p] = [NoCall EXCEPT !.pc = "queued", !.req = r]]
    /\ budget' = budget - 1
    /\ UNCHANGED files /\ syncFrame

\* The event loop calls the handler of a waiting request; it returns after
\* res.json.
HandleSync(p) ==
  LET reply == Handled(procs[p].req)
  IN  /\ procs[p].pc = "queued"
      /\ files' = reply.ctx.files
      /\ procs' = [procs EXCEPT ![p] = [@ EXCEPT !.pc = "done", !.status = reply.status,
                                                 !.body = reply.body]]
      /\ UNCHANGED budget /\ syncFrame

NextSync == \E p \in Procs : Arrive(p) \/ HandleSync(p)

SpecSync == InitSync /\ [][NextSync]_vars

\* The requests answered so far.
Answered == {p \in Procs : procs[p].pc = "done"}

\* The orders in which the requests of D can be handled one at a time.
Orders(D) ==
  {o \in [1..Cardinality(D) -> D] : \A i, j \in 1..Cardinality(D) : o[i] = o[j] => i = j}

RECURSIVE SerialFrom(_, _)
\* The documents after handling the requests of `order` one at a time,
\* starting from F.
SerialFrom(F, order) ==
  IF order = <<>> THEN F
  ELSE SerialFrom(HandleOn(F, procs[Head(order)].req).ctx.files, Tail(order))

\* A registration answered 200 is in the guilds document.
NoneLost ==
  \A p \in Answered :
    (procs[p].req.kind = "register" /\ procs[p].status = 200)
      => procs[p].req.body.guildId \in BoundIds(files)

TokAliceAdmin == jwtSign("u1", "alice", TRUE)

InitStale ==
  /\ InitServe("stale", MaxReqs)
  /\ files = [BaseFiles EXCEPT ![usersFile] = Doc([Users0 EXCEPT ![2].isAdmin = TRUE])]
  /\ issued = {TokAliceAdmin, TokBob}

NextStale ==
  \/ ReqAdminUsersUpdate
  \/ ReqAdminUsersDelete
  \/ ReqAdminUsersList
  \/ ReqPanelConfigGet
  \/ ReqMeBots

SpecStale == InitStale /\ [][NextStale]_vars

\* The documents F without the users document.
NoUsers(F) == [F EXCEPT ![usersFile] = Absent]

C34Step ==
  (Served /\ last'.tok.kind = "jwt")
    => /\ last'.status # 401
       /\ last'.ep \in AdminRoutes => (last'.status # 403 <=> last'.tok.isAdmin)
       /\ last'.ep \in OwnerScoped
            => /\ last'.status = 200
                    <=> ensureOwner(Ctx(NoUsers(files)), last'.tok, last'.guild).pass
               /\ usersFile \notin last'.reads
               /\ (\E b \in BoundBots(last'.guild) : b.ownerUserId = last'.tok.uid)
                    => last'.status = 200
       /\ last'.ep = "me.bots"
            => /\ last'.status = 200
               /\ usersFile \notin last'.reads
               /\ ElemsOf(last'.body.bots) = {safeBotView(b) : b \in BotsOf(files, last'.tok)}

\* C34: a session is judged by the claims of its token and by the bots and
\* guilds documents alone: whatever the users document holds, a token that
\* verifies is authenticated, passes the admin guard exactly when its isAdmin
\* claim is true and passes the owner guard exactly as the bots and guilds
\* documents say for its subject id.
C34_TokenClaimsOnly == [][C34Step]_vars

\* Alice was made a plain user and then deleted, and her earlier session still
\* lists the users as an admin.
C34_Witness ==
  /\ scn = "stale"
  /\ log[2].ep = "admin.users.update" /\ log[2].status = 200 /\ log[2].arg.id = "u1"
  /\ log[3].ep = "admin.users.delete" /\ log[3].status = 200 /\ log[3].arg.id = "u1"
  /\ last.ep = "admin.users.list" /\ last.tok = TokAliceAdmin /\ last.status = 200
  /\ FirstWith(Content(files, usersFile), "id", "u1") = 0

\* Bob was deleted and his session still reads the configuration of the guild
\* of his bot.
C34_OwnerGone ==
  /\ scn = "stale"
  /\ log[3].ep = "admin.users.delete" /\ log[3].status = 200 /\ log[3].arg.id = "u2"
  /\ last.ep = "panel.config.get" /\ last.tok = TokBob /\ last.guild = "g2"
  /\ last.status = 200
  /\ FirstWith(Content(files, usersFile), "id", "u2") = 0

(***************************************************************************)
(* Scenario: process starts and user administration from an empty store    *)
(***************************************************************************)
InitIds ==
  /\ InitServe("ids", MaxReqs)
  /\ files = NoFiles
  /\ issued = {TokAdmin}

NextIds ==
  \/ Seed
  \/ ReqAdminUsersCreate
  \/ ReqAdminUsersUpdate
  \/ ReqAdminUsersDelete

SpecIds == InitIds /\ [][NextIds]_vars

\* C35: no two records of the users document have the same id.
C35_UniqueIds ==
  \A i, j \in DOMAIN Content(files, usersFile) :
    Content(files, usersFile)[i].id = Content(files, usersFile)[j].id => i = j

\* The seeded admin was renamed and the process started again: the users
\* document holds two records with the id "admin".
C35_TwoAdmins ==
  /\ scn = "ids"
  /\ last.ep = "seed"
  /\ Len(Content(files, usersFile)) = 2
  /\ Content(files, usersFile)[1].id = "admin" /\ Content(files, usersFile)[2].id = "admin"
  /\ Content(files, usersFile)[1].username = "bob"

(***************************************************************************)
(* Scenario: export, then import of what the export returned               *)
(***************************************************************************)
InitRoundTrip ==
  /\ InitServe("roundtrip", MaxReqs)
  /\ files \in {BaseFiles, FilledFiles}
  /\ issued = {TokAdmin}

NextRoundTrip ==
  \/ ReqAdminExport
  \/ ReqAdminImport
  \/ ReqAdminBotsSecret
  \/ ReqPanelPublish
  \/ ReqBotRegister

SpecRoundTrip == InitRoundTrip /\ [][NextRoundTrip]_vars

\* This step is an import, answered 200, of the payload the request before it,
\* an export, returned.
ImportOfExport ==
  /\ Served
  /\ last.ep = "admin.export" /\ last.status = 200
  /\ last'.ep = "admin.import" /\ last'.status = 200
  /\ last'.arg.body = last.body

C36Step ==
  ImportOfExport
    => /\ \A d \in DocNames \ {botsFile} : Content(files', d) = Content(files, d)
       /\ Content(files', botsFile) = MapSafe(Content(files, botsFile))
       /\ last'.writes = DocNames

\* C36: importing the payload an export just returned writes all seven
\* documents; users, guild bindings, roles, channels, configs and publish
\* flags have the content they had, and every bot credential is as it was
\* except that it no longer has a token.
C36_ExportImport == [][C36Step]_vars

\* As stated: all seven documents, the tokens of the bots included, are as
\* before.
C36_NoOp ==
  [][ImportOfExport => \A d \in DocNames : Content(files', d) = Content(files, d)]_vars

\* An export and the import of its payload: bot b1, stored with a token before
\* the export, is now stored without one.
C36_Witness ==
  /\ scn = "roundtrip" /\ backend = "table"
  /\ log[3].ep = "admin.export" /\ log[3].status = 200
  /\ last.ep = "admin.import" /\ last.status = 200
  /\ last.arg.body = log[3].body
  /\ Len(Content(files, botsFile)) = 2
  /\ Content(files, botsFile)[1].id = "b1"
  /\ "token" \notin DOMAIN Content(files, botsFile)[1]
  /\ Content(files, usersFile) = Users0

(***************************************************************************)
(* Admin login without credentials                                         *)
(***************************************************************************)
\* C37: the admin login hands no token to a request whose body lacks a
\* username or a password, whether ADMIN_USER and ADMIN_PASS are set or not.
C37_NoTokenWithoutCredentials ==
  (last.ep = "auth.login"
     /\ (~Has(last.arg.body, "username") \/ ~Has(last.arg.body, "password")))
    => /\ last.status = 400
       /\ "token" \notin DOMAIN last.body

\* ADMIN_USER and ADMIN_PASS unset: the login with an empty body was answered
\* 200 with an admin token.
C37_EmptyBodyAdmin ==
  /\ env = NoEnv
  /\ last.ep = "auth.login" /\ last.arg.body = EmptyObj
  /\ last.status = 200
  /\ last.body.token.isAdmin /\ last.body.token.uid = "admin"

(***************************************************************************)
(* The panel SDK (src/public/service.js, src/unnamed/part_000)             *)
(*                                                                         *)
(* `sdk` is one loaded copy of the module: mem is its variable ADMIN_TOKEN,*)
(* ls the ADMIN_TOKEN entry of localStorage, lsBase whether localStorage   *)
(* has an API_BASE_URL entry.  A login call is followed through its awaits:*)
(* pc is the request it waits for, calls the paths it has requested, resp  *)
(* the response it got last.  The server is the environment: it answers    *)
(* each request with any outcome.                                          *)
(***************************************************************************)
\* localStorage.getItem of an entry that is not there.
NoItem == "<no item>"

TokenArgs == {"tokA", "tokB", "", Null, Undefined}

\* JS truthiness of a token argument.  The tokens are strings, which
\* localStorage.setItem stores as they are.
Truthy(t) == t \notin {"", Null, Undefined}

getItem(entry) == IF entry = NoItem THEN Null ELSE entry

\* A setToken that leaves the stored entry when the token is cleared.
setToken_keepsEntry(s, token) ==
  [s EXCEPT !.mem = IF Truthy(token) THEN token ELSE Null,
            !.ls = IF s.hasLS /\ Truthy(token) THEN token ELSE @]

setToken(s, token) ==
  [s EXCEPT !.mem = IF Truthy(token) THEN token ELSE Null,
            !.ls = IF ~s.hasLS THEN @
                   ELSE IF Truthy(token) THEN token ELSE NoItem]

clearAll(s) == [setToken(s, Null) EXCEPT !.lsBase = IF s.hasLS THEN FALSE ELSE @]

AuthPath(kind) == IF kind = "admin" THEN "/api/auth/login" ELSE "/api/auth/login_user"
SessionPath(kind) == IF kind = "admin" THEN "/api/session/login" ELSE "/api/session/login_user"

\* What request() makes of a response: data for 2xx, an error otherwise.  The
\* error of the unified module carries the status; a fetch that rejects
\* (network, timeout) gives an error without one (status 0).
Ok(token) == [ok |-> TRUE, status |-> 200, token |-> token]
Fail(status) == [ok |-> FALSE, status |-> status, token |-> Undefined]
NoResponse == [ok |-> FALSE, status |-> -1, token |-> Undefined]

Outcomes ==
  {Ok("tokA"), Ok("tokB"), Ok(Undefined), Fail(0), Fail(400), Fail(401), Fail(404),
   Fail(405), Fail(500)}

\* A second path is tried after any failure.
TriesSession_always(status) == TRUE

\* e?.status === 404 || e?.status === 405
TriesSession(status) == status \in {404, 405}

\* The module as loaded: ADMIN_TOKEN is taken from localStorage when there is
\* an entry.
Loaded(unified, hasLS, entry, base) ==
  [pc |-> "idle", unified |-> unified, hasLS |-> hasLS,
   mem |-> getItem(entry), ls |-> entry, lsBase |-> base,
   call |-> "load", arg |-> Undefined, kind |-> "none", calls |-> <<>>,
   resp |-> NoResponse, result |-> "none", error |-> -1]

InitSdk ==
  /\ scn = "sdk"
  /\ backend = "table"
  /\ files = NoFiles
  /\ issued = {}
  /\ now = 0
  /\ nextUuid = 0
  /\ last = NoRequest
  /\ log = <<NoRequest, NoRequest, NoRequest>>
  /\ budget = MaxReqs
  /\ procs = <<>>
  /\ step = NoStep
  /\ made = [g \in GuildIds |-> 0]
  /\ delivered = [g \in GuildIds |-> 0]
  /\ env = NoEnv
  /\ disk = NoDisk
  /\ rows = NoRows
  /\ faults = NoFaults
  /\ \E unified \in BOOLEAN, hasLS \in BOOLEAN :
       \E entry \in (IF hasLS THEN {NoItem, "tokA"} ELSE {NoItem}) :
         sdk = Loaded(unified, hasLS, entry, hasLS)

sdkFrame ==
  UNCHANGED <<backend, files, issued, now, nextUuid, last, log, scn, procs, step, made,
              delivered, env, disk, rows, faults>>

\* setToken(token), called by the page.
SdkSetToken ==
  \E t \in TokenArgs :
    /\ budget > 0
    /\ sdk' = [setToken(sdk, t) EXCEPT !.call = "setToken", !.arg = t]
    /\ budget' = budget - 1
    /\ sdkFrame

SdkClearAll ==
  /\ budget > 0
  /\ sdk' = [clearAll(sdk) EXCEPT !.call = "clearAll", !.arg = Undefined]
  /\ budget' = budget - 1
  /\ sdkFrame

\* login(username, password) or loginUser(username, password) is called: it
\* awaits request() on the /api/auth/ path.
SdkLogin ==
  \E kind \in {"admin", "user"} :
    /\ budget > 0 /\ sdk.pc = "idle"
    /\ sdk' = [sdk EXCEPT !.pc = "auth", !.call = "login", !.arg = Undefined, !.kind = kind,
                          !.calls = <<AuthPath(kind)>>, !.resp = NoResponse,
                          !.result = "none", !.error = -1]
    /\ budget' = budget - 1
    /\ sdkFrame

\* The awaited request() settles and the login goes on to its next await or to
\* its end.
SdkRespond ==
  \E o \in Outcomes :
    /\ sdk.pc \in {"auth", "session"}
    /\ sdk' =
         IF o.ok
         THEN [(IF Truthy(o.token) THEN setToken(sdk, o.token) ELSE sdk)
                 EXCEPT !.pc = "idle", !.resp = o, !.result = "returned"]
         ELSE IF sdk.unified /\ sdk.pc = "auth" /\ TriesSession(o.status)
         THEN [sdk EXCEPT !.pc = "session", !.resp = o,
                          !.calls = Append(@, SessionPath(sdk.kind))]
         ELSE [sdk EXCEPT !.pc = "idle", !.resp = o, !.result = "thrown",
                          !.error = IF sdk.unified THEN o.status ELSE 0]
    /\ UNCHANGED budget
    /\ sdkFrame

NextSdk == SdkSetToken \/ SdkClearAll \/ SdkLogin \/ SdkRespond

SpecSdk == InitSdk /\ [][NextSdk]_vars

\* getToken() is what the ADMIN_TOKEN entry of localStorage holds.
Mirrored(s) == s.hasLS => s.mem = getItem(s.ls)

\* The awaited request of the login settled in this step.
Responded == sdk.pc \in {"auth", "session"} /\ sdk'.pc # sdk.pc

C38Step ==
  /\ Mirrored(sdk')
  /\ (sdk' # sdk /\ sdk'.hasLS
        /\ (sdk'.call = "clearAll" \/ (sdk'.call = "setToken" /\ sdk'.arg = Null))
        /\ ~Responded)
       => sdk'.mem = Null /\ sdk'.ls = NoItem
  /\ (Responded /\ sdk'.result = "thrown")
       => sdk'.mem = sdk.mem /\ sdk'.ls = sdk.ls

\* C38: with localStorage available, getToken() equals the ADMIN_TOKEN entry
\* of localStorage after every setToken, clearAll and login (no token and no
\* entry after setToken(null) and clearAll), and a login that fails leaves
\* both as they were.
C38_TokenMirrored == Mirrored(sdk) /\ [][C38Step]_vars

\* A login failed after the page had set token tokB: tokB is still the token
\* in memory and in localStorage.
C38_Witness ==
  /\ scn = "sdk" /\ sdk.hasLS
  /\ sdk.call = "login" /\ sdk.result = "thrown"
  /\ sdk.mem = "tokB" /\ sdk.ls = "tokB"

\* The paths one login call may request, in order.
CallsOf(kind) == {<<AuthPath(kind)>>, <<AuthPath(kind), SessionPath(kind)>>}

C39Step ==
  sdk'.unified =>
    /\ (sdk.pc = "idle" /\ sdk'.pc # "idle")
         => sdk'.pc = "auth" /\ sdk'.calls = <<AuthPath(sdk'.kind)>>
    /\ Responded =>
         /\ sdk'.pc = "session"
              <=> (sdk.pc = "auth" /\ ~sdk'.resp.ok /\ sdk'.resp.status \in {404, 405})
         /\ sdk'.pc = "session" => sdk'.calls = Append(sdk.calls, SessionPath(sdk.kind))
         /\ sdk'.pc # "session" => sdk'.calls = sdk.calls /\ sdk'.pc = "idle"
         /\ (~sdk'.resp.ok /\ sdk'.pc = "idle")
              => /\ sdk'.result = "thrown" /\ sdk'.error = sdk'.resp.status
                 /\ sdk'.mem = sdk.mem /\ sdk'.ls = sdk.ls
         /\ (sdk'.mem # sdk.mem \/ sdk'.ls # sdk.ls)
              => sdk'.resp.ok /\ Truthy(sdk'.resp.token) /\ sdk'.mem = sdk'.resp.token
    /\ sdk'.pc # "idle" => sdk'.calls \in CallsOf(sdk'.kind)

\* C39: in the unified SDK, login and loginUser request the /api/auth/ path
\* first and the /api/session/ path at most once, and only after the first
\* request failed with status 404 or 405; any other failure is thrown to the
\* caller without a second request, and a token is stored only from a
\* successful response.
C39_AuthThenSession == [][C39Step]_vars

\* A login got 404 on /api/auth/login, then a token from /api/session/login,
\* and stored it.
C39_Witness ==
  /\ scn = "sdk" /\ sdk.unified
  /\ sdk.calls = <<"/api/auth/login", "/api/session/login">>
  /\ sdk.result = "returned" /\ sdk.resp = Ok("tokA")
  /\ sdk.mem = "tokA"

\* A login of the unified SDK was thrown a 401 by the /api/auth/ path and made
\* no second request.
C39_Rethrown ==
  /\ scn = "sdk" /\ sdk.unified
  /\ sdk.calls = <<"/api/auth/login_user">>
  /\ sdk.result = "thrown" /\ sdk.error = 401

====
